---- MODULE Spec2Model ----
(***************************************************************************)
(* Checkpoint / resume, approval-gate and cancellation protocol of the     *)
(* recipe executor (RecipeExecutor.execute_recipe and                      *)
(* RecipeExecutor._execute_staged_recipe) together with the outer tool     *)
(* operations approve / deny / cancel / resume (RecipesTool) over the      *)
(* persisted session document.                                             *)
(*                                                                         *)
(* Indices are 0-based as in the source; TLA+ sequences are 1-based, so    *)
(* the step at index i of a list xs is xs[i + 1].                          *)
(***************************************************************************)
EXTENDS Integers, Sequences, FiniteSets, TLC

\* ------------------------------------------------------------------------
\* Bounds of the model
\* ------------------------------------------------------------------------
\* Flat recipes have 1..MaxFlatSteps steps; a session sees at most MaxRuns
\* invocations (one execute, then resumes).
MaxFlatSteps == 3
MaxRuns == 2

\* The staged recipes: one sequence of stage sizes per shape.
StageShapes == {<<2>>, <<2, 2>>}

\* Stages are named by their position.
StageNames == UNION {1..Len(shape) : shape \in StageShapes}

\* ------------------------------------------------------------------------
\* Recipes (models.py: Recipe, Stage, Step, ApprovalConfig)
\* ------------------------------------------------------------------------
\* What the step loop does with a step when it reaches it:
\*   run      the step is dispatched (no condition or a true one; a plain
\*            step or a foreach over a non-empty list)
\*   guarded  step.condition evaluates to false
\*   empty    step.foreach resolves to an empty list
StepKinds == {"run", "guarded", "empty"}

Step(id, kind) == [id |-> id, kind |-> kind]

\* ApprovalConfig: timeout 0 means wait forever; a positive timeout is one
\* time unit, which the action Tick lets elapse.
ApprovalConfig(required, timeout, default) ==
    [required |-> required, timeout |-> timeout, default |-> default]

NoApproval == ApprovalConfig(FALSE, 0, "deny")

ApprovalPolicies == {ApprovalConfig(TRUE, 0, "deny"),
                     ApprovalConfig(TRUE, 1, "deny"),
                     ApprovalConfig(TRUE, 1, "approve")}

\* Assignments of kinds to the steps 1..n: every step runs, except
\* possibly one that is guarded or loops over an empty list.
KindMaps(n) ==
    LET all_run == [j \in 1..n |-> "run"]
    IN  {all_run} \cup {[all_run EXCEPT ![j] = k] : j \in 1..n, k \in StepKinds \ {"run"}}

\* Flat recipe: recipe.steps populated, recipe.stages empty.
FlatRecipe(n, k) ==
    [steps  |-> [j \in 1..n |-> Step(j, k[j])],
     stages |-> << >>]

RECURSIVE Sum(_)
Sum(ns) == IF ns = << >> THEN 0 ELSE Head(ns) + Sum(Tail(ns))

\* Staged recipe: stage s has shape[s] steps; step ids are unique across
\* stages.  gated is the set of stages whose approval.required is set, all
\* with the approval policy pol.
StagedRecipe(shape, k, gated, pol) ==
    [steps  |-> << >>,
     stages |-> [s \in 1..Len(shape) |->
                   LET first == Sum(SubSeq(shape, 1, s - 1))
                   IN  [name     |-> s,
                        steps    |-> [j \in 1..shape[s] |-> Step(first + j, k[first + j])],
                        approval |-> IF s \in gated THEN pol ELSE NoApproval]]]

\* The gates of a staged recipe with ns stages: none, or a non-empty set of
\* gated stages under one approval policy.
GatePolicies(ns) ==
    {<<{}, NoApproval>>} \cup (((SUBSET (1..ns)) \ {{}}) \X ApprovalPolicies)

FlatRecipes ==
    UNION {{FlatRecipe(n, k) : k \in KindMaps(n)} : n \in 1..MaxFlatSteps}

StagedRecipes ==
    UNION {{StagedRecipe(shape, k, gp[1], gp[2]) :
               k \in KindMaps(Sum(shape)), gp \in GatePolicies(Len(shape))} :
           shape \in StageShapes}

Recipes == FlatRecipes \cup StagedRecipes

\* Recipe.is_staged
is_staged(r) == Len(r.stages) > 0

\* Recipe.get_all_steps
RECURSIVE Concat(_)
Concat(ss) == IF ss = << >> THEN << >> ELSE Head(ss) \o Concat(Tail(ss))

get_all_steps(r) ==
    IF is_staged(r)
    THEN Concat([s \in 1..Len(r.stages) |-> r.stages[s].steps])
    ELSE r.steps


\* ------------------------------------------------------------------------
\* Context (executor.py: the dict `context`)
\* ------------------------------------------------------------------------
\* outputs: ids of the steps whose output variable has been written (step
\* outputs are deterministic, so the key determines the value);
\* skipped_steps: the list context["_skipped_steps"].
EmptyContext == [outputs |-> {}, skipped_steps |-> << >>]

\* ------------------------------------------------------------------------
\* Session Store (session.py: SessionManager; the persisted state document)
\* ------------------------------------------------------------------------
NoStep == 0

\* The label "stage:<name>" used as current_step by the stage-level poll.
StageLabel(name) == 0 - name

NoPending == [stage_name |-> 0, timeout |-> 0, default |-> "deny"]

\* The state document.  A key that is absent from the JSON document is
\* represented by its default: no pending approval, no stage status,
\* cancellation_status "none", no cancelled_at_step.
InitialState ==
    [exists                  |-> TRUE,
     current_step_index      |-> 0,
     current_stage_index     |-> 0,
     current_step_in_stage   |-> 0,
     context                 |-> EmptyContext,
     completed_steps         |-> << >>,
     completed_stages        |-> << >>,
     pending_approval        |-> NoPending,
     stage_approval_statuses |-> [s \in StageNames |-> "absent"],
     cancellation_status     |-> "none",
     cancelled_at_step       |-> NoStep]

NoSession == [InitialState EXCEPT !.exists = FALSE]

\* SessionManager.create_session: the initial state document.
create_session == InitialState

\* SessionManager.save_state / load_state: the document is replaced by the
\* one given; loading returns what was saved.
save_state(state) == state

load_state(d) == d

\* SessionManager.set_pending_approval: load, add the approval request, save.
set_pending_approval(d, stage_name, timeout, default) ==
    [d EXCEPT !.pending_approval =
                  [stage_name |-> stage_name, timeout |-> timeout, default |-> default]]

\* SessionManager.get_pending_approval: the request, or none.
get_pending_approval(d) == d.pending_approval

\* SessionManager.clear_pending_approval
clear_pending_approval(d) == [d EXCEPT !.pending_approval = NoPending]

\* SessionManager.set_stage_approval_status
set_stage_approval_status(d, stage_name, status) ==
    [d EXCEPT !.stage_approval_statuses[stage_name] = status]

\* SessionManager.get_stage_approval_status: PENDING until a decision is recorded.
get_stage_approval_status(d, stage_name) ==
    IF d.stage_approval_statuses[stage_name] = "absent"
    THEN "pending"
    ELSE d.stage_approval_statuses[stage_name]

\* SessionManager.check_approval_timeout: wall-clock against
\* requested_at + timeout (timed_out says the clock has passed it);
\* timeout = 0 waits forever.
check_approval_timeout(d, timed_out) ==
    IF d.pending_approval.stage_name = 0 \/ d.pending_approval.timeout = 0 \/ ~timed_out
    THEN "pending"
    ELSE IF d.pending_approval.default = "approve" THEN "approved" ELSE "timeout"

\* SessionManager.request_cancellation: none -> requested -> immediate;
\* a cancelled session is left alone.
request_cancellation(d, immediate) ==
    IF d.cancellation_status = "cancelled" THEN d
    ELSE IF immediate THEN [d EXCEPT !.cancellation_status = "immediate"]
    ELSE IF d.cancellation_status = "immediate" THEN d
    ELSE [d EXCEPT !.cancellation_status = "requested"]

\* SessionManager.mark_cancelled
mark_cancelled(d, cancelled_at_step) ==
    [d EXCEPT !.cancellation_status = "cancelled",
              !.cancelled_at_step = cancelled_at_step]

\* SessionManager.is_cancellation_requested
is_cancellation_requested(d) == d.cancellation_status \in {"requested", "immediate"}

\* SessionManager.is_immediate_cancellation
is_immediate_cancellation(d) == d.cancellation_status = "immediate"

\* ------------------------------------------------------------------------
\* State documents built by the executor
\* ------------------------------------------------------------------------
\* execute_recipe: the dict `state` of a flat recipe.  It carries no
\* approval or cancellation key.
FlatState(index, context, completed_steps) ==
    [InitialState EXCEPT !.current_step_index = index,
                         !.context = context,
                         !.completed_steps = completed_steps]

\* _save_staged_state: the dict `state` of a staged recipe.
StagedState(stage_index, step_in_stage, context, completed_stages, completed_steps) ==
    [InitialState EXCEPT !.current_stage_index = stage_index,
                         !.current_step_in_stage = step_in_stage,
                         !.context = context,
                         !.completed_stages = completed_stages,
                         !.completed_steps = completed_steps]

\* A checkpoint that writes the index of the step just completed.
StaleIndex(i) == i

\* The index written by the checkpoint after the step at index i.
CheckpointIndex(i) == i + 1


\* ------------------------------------------------------------------------
\* Rate limiter (executor.py: class RateLimiter)
\* ------------------------------------------------------------------------
MaxSlots == 2       \* largest rate_limiting.max_concurrent_llm
MaxItems == 2       \* longest foreach list
MaxAttempts == 2    \* largest retry.max_attempts

\* rate_limiter is None.
NoLimiter == [max_concurrent |-> 0, semaphore |-> 0]

\* RateLimiter.__init__: a counting semaphore of max_concurrent_llm slots.
RateLimiter(max_concurrent_llm) ==
    [max_concurrent |-> max_concurrent_llm, semaphore |-> max_concurrent_llm]

\* A semaphore whose acquire never waits.
NeverBlocks(l) == TRUE

\* asyncio.Semaphore.acquire returns only while a slot is free.
CanAcquire(l) == l.semaphore > 0

\* A release that gives no slot back.
KeepSlot(l) == l

\* RateLimiter.acquire (pacing and back-off are delays).
acquire(l) == [l EXCEPT !.semaphore = @ - 1]

\* RateLimiter.release
release(l) == [l EXCEPT !.semaphore = @ + 1]

\* ------------------------------------------------------------------------
\* One step of a flat recipe under execute_step_with_retry
\* ------------------------------------------------------------------------
\* The recipe is [s1, s2, s3]; the step studied is s2 (index 1), an agent
\* step that is plain, a sequential foreach or a parallel foreach.
StepId == 2
StepIndex == 1

\* The context and the completed steps after s1.
ContextBefore == [EmptyContext EXCEPT !.outputs = {1}]
CompletedBefore == <<1>>

\* current_step of the poll before iteration idx: "<step.id>[<idx>]".
IterationLabel(id, idx) == 10 * id + idx

\* "bash" is a plain step of type bash; the other shapes are agent steps.
StepShapes == {"agent", "sequential", "parallel", "bash"}
OnError == {"fail", "continue", "skip_remaining"}

\* One call of execute_step_with_retry (an iteration, or the plain step).
\*   pc       "pending"   not started (sequential: an iteration not reached)
\*            "acquire"   past the poll of the attempt, at rate_limiter.acquire
\*            "call"      inside execute_step
\*            "sleep"     in the sleep before the next attempt
\*            "bash"      a bash step waiting for its subprocess
\*            "returned", "raised", "skip", "cancelled"   how it ended
\*   attempt  the loop variable of the retry loop
\*   calls    history: the number of calls of execute_step
\*   result   what was returned: "value", "none" (None), "unset" before
\*   failed   history: the last attempt raised, or the command exited
\*            non-zero
Task(pc) == [pc |-> pc, attempt |-> 0, calls |-> 0, result |-> "unset", failed |-> FALSE]

\* A retry loop that takes every attempt for the last one.
AnyAttempt(attempt, max_attempts) == TRUE

\* 932: the final attempt of the retry loop.
LastAttempt(attempt, max_attempts) == attempt = max_attempts - 1

\* A dispatcher that re-raises under every policy.
AlwaysRaise(on_error) == "raised"

\* A dispatcher that returns None under every policy.
AlwaysNone(on_error) == "returned"

\* 933-939: how execute_step_with_retry ends after its last attempt failed.
OnErrorOutcome(on_error) ==
    CASE on_error = "fail"     -> "raised"
      [] on_error = "continue" -> "returned"
      [] OTHER                 -> "skip"

\* The step as configured and its execution.
\*   shape, items, max_attempts, on_error   the Step
\*   rate_limiter   the limiter passed to execute_recipe
\*   state          current_step_index of the dict `state`, -1 while None
\*   pc             "poll" before the step, "running", then how it ended
\*   task           the calls of execute_step_with_retry
\*   requested_at   history: the call in flight when cancellation was
\*                  first requested (0: none); immediate: its level
StepRun(shape, items, max_attempts, on_error, limiter, state) ==
    [shape        |-> shape,
     items        |-> items,
     max_attempts |-> max_attempts,
     on_error     |-> on_error,
     rate_limiter |-> limiter,
     state        |-> state,
     pc           |-> "poll",
     task         |-> [t \in 1..items |-> Task("pending")],
     requested_at |-> 0,
     immediate    |-> FALSE]

NoStepRun == [StepRun("agent", 1, 1, "fail", NoLimiter, -1) EXCEPT !.pc = "idle"]


\* ------------------------------------------------------------------------
\* Recipe composition (executor.py: _execute_recipe_step, execute_recipe)
\* ------------------------------------------------------------------------
MaxNesting == 2     \* depth of the deepest sub-recipe

\* The flat recipe at each level of the tree: above the deepest level an
\* agent step and two steps of type "recipe" that load the recipe of the
\* next level; at the deepest level one agent step.
TreeSteps(level) ==
    IF level < MaxNesting THEN <<"agent", "recipe", "recipe">> ELSE <<"agent">>

\* The dict `state` after the checkpoint that wrote current_step_index.
TreeState(index) ==
    FlatState(index, [EmptyContext EXCEPT !.outputs = 1..index], [j \in 1..index |-> j])

\* One invocation of execute_recipe.
\*   level          depth of the recipe in the tree (0: the root)
\*   i              the loop variable of the step loop
\*   session_id     the session it checkpoints to (index into sessions)
\*   cancellation_session_id   the session its polls read
\*   state          current_step_index of the dict `state`, -1 while None
\*   rate_limiter   the limiter it uses (index into limiters), 0 for None
\*   pc             "loop" at the top of the step loop, "call" inside an
\*                  agent step, "sub" inside a sub-recipe
Frame(level, session_id, cancellation_session_id, rate_limiter) ==
    [level                   |-> level,
     i                       |-> 0,
     session_id              |-> session_id,
     cancellation_session_id |-> cancellation_session_id,
     state                   |-> -1,
     rate_limiter            |-> rate_limiter,
     pc                      |-> "loop"]

\* 423: the session the polls of an invocation read.
CancellationSessionId(session_id, parent_session_id) ==
    IF session_id # 0 THEN session_id ELSE parent_session_id

\* 357-361: the limiter an invocation uses, given the one it was handed
\* (0 for None), its recipe's rate_limiting (0 for none) and the number of
\* limiters created so far.
InheritedLimiter(rate_limiter, rate_limiting, created) ==
    IF rate_limiter = 0 /\ rate_limiting # 0 THEN created + 1 ELSE rate_limiter

\* The tree under execution.
\*   rate_limiting  max_concurrent_llm of the recipe of each level, 0 for
\*                  a recipe without rate_limiting
\*   stack          the invocations of execute_recipe, the root first
\*   sessions       the session documents, in order of creation
\*   limiters       history: for each RateLimiter created, the level of the
\*                  recipe that created it
\*   outcome        "none", "running", "completed" or "cancelled"
Tree(rate_limiting) ==
    [rate_limiting |-> rate_limiting,
     stack         |-> << >>,
     sessions      |-> << >>,
     limiters      |-> << >>,
     outcome       |-> "none"]

NoTree == Tree([level \in 0..MaxNesting |-> 0])


\* ------------------------------------------------------------------------
\* foreach loops (executor.py: _execute_loop and its two strategies)
\* ------------------------------------------------------------------------
MaxParallel == 2

\* Step.parallel (models.py 206, 326-336): False, True or a positive int.
\* Python's bool is an int, so a value is kept together with its type:
\* False is the bool 0, True the bool 1.
ParallelValues ==
    {p \in [is_bool : BOOLEAN, value : 0..MaxParallel] :
        IF p.is_bool THEN p.value \in {0, 1} ELSE p.value >= 1}

\* 1196: `if step.parallel`.
Truthy(parallel) == parallel.value # 0

\* 1323: `step.parallel is True`.
IsTrue(parallel) == parallel.is_bool /\ parallel.value = 1

\* A loop that never bounds its iterations.
NoBound(parallel) == 0

\* 1323-1328: the concurrency limit of a parallel loop; 0 stands for None.
MaxConcurrent(parallel) == IF IsTrue(parallel) THEN 0 ELSE parallel.value

\* The lists a foreach variable resolves to: distinct items, the empty list
\* included (1172-1177).
ItemLists ==
    UNION {{xs \in [1..n -> 1..MaxItems] : \A i, j \in 1..n : xs[i] = xs[j] => i = j} :
           n \in 0..MaxItems}

\* The processed result of the inner step run with loop variable `item`
\* (1333-1360); None is 0.
IterationResult(item) == 10 * item

\* One iteration: its position, the value of the loop variable in the
\* context it ran with (0: not started) and its result.
\*   pc   "pending"  not begun
\*        "waiting"  at `async with semaphore`
\*        "running"  inside the inner step
\*        "returned", "raised", "skip", "cancelled"   how it ended
LoopTask(pc) == [pc |-> pc, item |-> 0, result |-> 0]

\* A foreach step about to enter _execute_loop.
\*   context        the parent context: loop_var and collect are << >> when
\*                  the key is absent and <<v>> when it holds v; a key of
\*                  the loop variable's name held before the loop holds 0
\*   semaphore      free slots of the loop's asyncio.Semaphore
\*   results        the list built by the sequential strategy
\*   order          history: the iterations in the order they returned
\*   requested      cancellation was requested for the session
LoopRun(parallel, xs, on_error, held) ==
    [parallel       |-> parallel,
     xs             |-> xs,
     on_error       |-> on_error,
     context        |-> [loop_var |-> IF held THEN <<0>> ELSE << >>, collect |-> << >>],
     max_concurrent |-> 0,
     semaphore      |-> 0,
     task           |-> [k \in 1..Len(xs) |-> LoopTask("pending")],
     results        |-> << >>,
     order          |-> << >>,
     requested      |-> FALSE,
     pc             |-> "start"]

NoLoop ==
    [LoopRun([is_bool |-> TRUE, value |-> 0], << >>, "fail", FALSE) EXCEPT !.pc = "idle"]


\* ------------------------------------------------------------------------
\* Recursion limits (executor.py: RecursionState)
\* ------------------------------------------------------------------------
MaxDepth == 3

\* Three recipes that call each other: a calls b, b calls a again and then
\* c (tests/test_executor_composition.py 266-306 has the cycle a, b, a).
\* A step is an agent step or a step of type "recipe" with its sub-recipe.
RecipeNames == {"a", "b", "c"}

CompSteps(name) ==
    CASE name = "a" -> <<[kind |-> "agent", recipe |-> ""],
                         [kind |-> "recipe", recipe |-> "b"],
                         [kind |-> "agent", recipe |-> ""]>>
      [] name = "b" -> <<[kind |-> "agent", recipe |-> ""],
                         [kind |-> "recipe", recipe |-> "a"],
                         [kind |-> "recipe", recipe |-> "c"]>>
      [] OTHER      -> <<[kind |-> "agent", recipe |-> ""]>>

MaxTotalSteps == 3

\* models.py 16-17: the defaults of RecursionConfig.
DefaultMaxDepth == 5
DefaultMaxTotalSteps == 100

\* models.py 12-17, 397, 470: the dataclass built from the keys a recipe
\* or a step gives under `recursion`; 0 stands for a key that is not given
\* and gets the default of its field.
RecursionConfig(max_depth, max_total_steps) ==
    [max_depth       |-> IF max_depth = 0 THEN DefaultMaxDepth ELSE max_depth,
     max_total_steps |-> IF max_total_steps = 0 THEN DefaultMaxTotalSteps
                         ELSE max_total_steps]

\* step.recursion of a step without a `recursion` key (models.py 217).
NoOverride == [max_depth |-> 0, max_total_steps |-> 0]

\* The `recursion` mapping of a step as written in the recipe: absent, or
\* present with each key given (a positive number) or not given (0).
StepRecursionKeys ==
    {k \in [present : BOOLEAN, max_depth : 0..MaxDepth, max_total_steps : 0..MaxTotalSteps] :
        ~k.present => k.max_depth = 0 /\ k.max_total_steps = 0}

NoKeys == [present |-> FALSE, max_depth |-> 0, max_total_steps |-> 0]

\* models.py 396-397: step.recursion as parsed from the step's mapping.
StepRecursion(keys) ==
    IF keys.present THEN RecursionConfig(keys.max_depth, keys.max_total_steps)
    ELSE NoOverride

\* 79-87: the dataclass.
RecursionState(current_depth, total_steps, max_depth, max_total_steps, recipe_stack) ==
    [current_depth   |-> current_depth,
     total_steps     |-> total_steps,
     max_depth       |-> max_depth,
     max_total_steps |-> max_total_steps,
     recipe_stack    |-> recipe_stack]

\* 345-352: the state of a top-level recipe with recursion config `config`.
RootState(name, config) ==
    RecursionState(0, 0, config.max_depth, config.max_total_steps, <<name>>)

\* 97-100: TRUE when check_total_steps raises.
check_total_steps(state) == state.total_steps >= state.max_total_steps

\* 102-105: the state after increment_steps; the counter is incremented
\* also when the check then raises.
increment_steps(state) == [state EXCEPT !.total_steps = @ + 1]

\* A check that lets the depth reach the limit.
check_beyond(state) == state.current_depth > state.max_depth

\* 89-95: TRUE when check_depth raises.
check_depth(state) == state.current_depth >= state.max_depth

\* 107-125: the child state for a sub-recipe; override_config is the
\* step's recursion config, NoOverride when the step has none.
enter_recipe(state, recipe_name, override_config) ==
    RecursionState(state.current_depth + 1,
                   state.total_steps,
                   IF override_config # NoOverride THEN override_config.max_depth
                   ELSE state.max_depth,
                   IF override_config # NoOverride THEN override_config.max_total_steps
                   ELSE state.max_total_steps,
                   Append(state.recipe_stack, recipe_name))

\* One invocation of execute_recipe on a flat recipe.
\*   pc   "loop" at the top of the step loop, "call" inside an agent step,
\*        "sub" inside a sub-recipe, "broke" after `break`
Invocation(name, recursion_state) ==
    [name            |-> name,
     recursion_state |-> recursion_state,
     i               |-> 0,
     pc              |-> "loop"]

\* No depth error was raised.
NoError == RecursionState(0, 0, 0, 0, << >>)

\* A run of recipe `root`.
\*   config      the recursion config of the root recipe
\*   override    the `recursion` mapping of the recipe step of a (see
\*               StepRecursionKeys)
\*   on_error    on_error of the agent steps
\*   stack       the invocations of execute_recipe, the root first
\*   created     history: number of sessions created
\*   dispatched  history: number of agent steps dispatched
\*   sentinel    history: the depth of the stack when a SkipRemainingError
\*               was last raised, 0 for never
\*   error       the state whose check_depth raised
\*   outcome     "none", "running", "completed" or "failed"
Composition(root, config, override, on_error) ==
    [root       |-> root,
     config     |-> config,
     override   |-> override,
     on_error   |-> on_error,
     stack      |-> << >>,
     created    |-> 0,
     dispatched |-> 0,
     sentinel   |-> 0,
     error      |-> NoError,
     outcome    |-> "none"]

NoComposition == Composition("c", RecursionConfig(0, 0), NoKeys, "fail")


\* ------------------------------------------------------------------------
\* State
\* ------------------------------------------------------------------------
VARIABLES
    recipe,        \* the recipe of the session (recipe.yaml in the session directory)
    disk,          \* the persisted state document of the session
    ex,            \* the running executor: its position and its local variables
    cancellation,  \* coordinator.cancellation: "none", "graceful" or "immediate"
    timed_out,     \* wall-clock has passed requested_at + timeout of the pending approval
    runs,          \* number of execute / resume invocations so far
    granted,       \* history: stages approved by the user or by timeout default,
                   \*          and not denied since
    denied,        \* history: stages denied by the user
    broke,         \* history: a skip-remaining sentinel ended a step loop
    eng,           \* the step under execute_step_with_retry (see StepRun)
                   \* (in SpecBackoff the back-off state, see BackoffState;
                   \* in SpecPacing the limiter and its acquirers, see Pacing)
    tree,          \* the recipe tree under execution (see Tree)
                   \* (in SpecContext the callers of a recipe step, see Isolation)
    loop,          \* the foreach step under _execute_loop (see LoopRun; in
                   \* SpecCount its step count, see CountRun)
    comp           \* the composition under its recursion limits (see Composition)
                   \* (in SpecNest the tree of parallel loops, see Nest)

vars == <<recipe, comp, loop, eng, tree, disk, ex, cancellation, timed_out, runs, granted, denied, broke>>

\* Local variables of execute_recipe / _execute_staged_recipe.
\*   pc                      where the executor is (see the actions)
\*   current_stage_index,
\*   current_step_in_stage   the position loaded on entry (staged)
\*   stage_idx, step_idx     the loop variables (flat: step_idx is i)
\*   state                   flat: current_step_index of the dict `state`,
\*                           -1 while `state` is None
\*   current_step            e.current_step of a raised CancellationRequestedError
\*   outcome                 how the last invocation ended
\*   loaded                  history: the document the invocation began with
\*   dispatched              history: ids of the steps the invocation dispatched
Run(loaded, stage, step, is_resuming) ==
    [pc                    |-> IF is_staged(recipe) THEN "stage" ELSE "loop",
     is_resuming           |-> is_resuming,
     current_stage_index   |-> stage,
     current_step_in_stage |-> step,
     stage_idx             |-> stage,
     step_idx              |-> step,
     context               |-> loaded.context,
     completed_stages      |-> loaded.completed_stages,
     completed_steps       |-> loaded.completed_steps,
     state                 |-> -1,
     current_step          |-> NoStep,
     outcome               |-> "running",
     loaded                |-> loaded,
     dispatched            |-> << >>]

\* The executor when no invocation is running.
Idle == [Run(NoSession, 0, 0, FALSE) EXCEPT !.pc = "idle", !.outcome = "none"]

\* The invocation ends: it returns the context (completed), raises
\* (paused, cancelled, failed, denied, timed_out) or dies (crashed).  Its
\* locals are gone; the context is what a completed invocation returned.
Stopped(outcome) ==
    [Idle EXCEPT !.outcome = outcome,
                 !.context = IF outcome = "completed" THEN ex.context ELSE EmptyContext]

Init ==
    /\ recipe \in Recipes
    /\ disk = NoSession
    /\ ex = Idle
    /\ cancellation = "none"
    /\ timed_out = FALSE
    /\ runs = 0
    /\ granted = {}
    /\ denied = {}
    /\ broke = FALSE
    /\ eng = NoStepRun
    /\ tree = NoTree
    /\ loop = NoLoop
    /\ comp = NoComposition

\* The steps of the list the step loop runs over, and the step it is at.
CurSteps ==
    IF is_staged(recipe) THEN recipe.stages[ex.stage_idx + 1].steps ELSE recipe.steps

CurStep == CurSteps[ex.step_idx + 1]

CurStage == recipe.stages[ex.stage_idx + 1]

\* _check_coordinator_cancellation: the document after the coordinator's
\* flag, if set, has been propagated to the session.
Polled ==
    IF cancellation = "none"
    THEN disk
    ELSE request_cancellation(disk, cancellation = "immediate")

\* ------------------------------------------------------------------------
\* Outer tool: execute and resume (RecipesTool._execute_recipe, _resume_recipe)
\* ------------------------------------------------------------------------
\* execute_recipe without a session id: create the session and start at
\* the first step with a fresh context.
Execute ==
    /\ ex.pc = "idle"
    /\ ~disk.exists
    /\ runs < MaxRuns
    /\ disk' = create_session
    /\ ex' = Run(create_session, 0, 0, FALSE)
    /\ runs' = runs + 1
    /\ UNCHANGED <<recipe, comp, loop, eng, tree, cancellation, timed_out, granted, denied, broke>>

\* A resume that ignores the persisted position and starts over.
RestartRun(state) == Run(state, 0, 0, TRUE)

\* The position a resumed run starts from (execute_recipe 408-413,
\* _execute_staged_recipe 611-616).
ResumeRun(state) ==
    IF is_staged(recipe)
    THEN Run(state, state.current_stage_index, state.current_step_in_stage, TRUE)
    ELSE Run(state, 0, state.current_step_index, TRUE)

\* What a resumed staged run does about a pending approval
\* (_execute_staged_recipe 618-642): "none" when nothing is pending,
\* otherwise the branch taken.
GateDecision(d, clock) ==
    LET pending         == get_pending_approval(d)
        stage_name      == pending.stage_name
        approval_status == get_stage_approval_status(d, stage_name)
        timeout_result  == check_approval_timeout(d, clock)
    IN  IF stage_name = 0 THEN "none"
        ELSE IF timeout_result = "timeout" THEN "timed_out"
        ELSE IF timeout_result = "approved" THEN "auto_approved"
        ELSE IF approval_status = "pending" THEN "paused"
        ELSE IF approval_status = "denied" THEN "denied"
        ELSE IF approval_status = "approved" THEN "approved"
        ELSE "fallthrough"

\* execute_recipe with a session id.
Resume ==
    /\ ex.pc = "idle"
    /\ disk.exists
    /\ runs < MaxRuns
    /\ LET state    == load_state(disk)
           decision == IF is_staged(recipe) THEN GateDecision(disk, timed_out) ELSE "none"
       IN  /\ CASE decision \in {"timed_out", "paused", "denied"} ->
                     /\ ex' = Stopped(decision)
                     /\ disk' = disk
                     /\ granted' = granted
                [] decision \in {"auto_approved", "approved"} ->
                     /\ ex' = ResumeRun(state)
                     /\ disk' = clear_pending_approval(disk)
                     /\ granted' = granted \cup {get_pending_approval(disk).stage_name}
                [] OTHER ->
                     /\ ex' = ResumeRun(state)
                     /\ disk' = disk
                     /\ granted' = granted
    /\ runs' = runs + 1
    /\ UNCHANGED <<recipe, comp, loop, eng, tree, cancellation, timed_out, denied, broke>>


\* ------------------------------------------------------------------------
\* Executor: stage loop and step loop
\* ------------------------------------------------------------------------
Env == <<recipe, comp, loop, eng, tree, timed_out, runs, granted, denied>>

\* The loop over the steps (flat) or over the stages (staged) is exhausted:
\* cleanup, return the context.
Finish ==
    /\ \/ ~is_staged(recipe) /\ ex.pc = "loop" /\ ex.step_idx >= Len(recipe.steps)
       \/ is_staged(recipe) /\ ex.pc = "stage" /\ ex.stage_idx >= Len(recipe.stages)
    /\ ex' = Stopped("completed")
    /\ UNCHANGED <<disk, cancellation, broke, Env>>

\* Top of the stage loop (652-669): poll, then enter the step loop at
\* start_step.
EnterStage ==
    /\ is_staged(recipe) /\ ex.pc = "stage" /\ ex.stage_idx < Len(recipe.stages)
    /\ ~is_cancellation_requested(Polled)
    /\ disk' = Polled
    /\ ex' = [ex EXCEPT !.pc = "loop",
                        !.step_idx = IF ex.stage_idx = ex.current_stage_index
                                     THEN ex.current_step_in_stage
                                     ELSE 0]
    /\ UNCHANGED <<cancellation, broke, Env>>

\* The poll before a stage finds cancellation requested (656-657).
CancelBeforeStage ==
    /\ is_staged(recipe) /\ ex.pc = "stage" /\ ex.stage_idx < Len(recipe.stages)
    /\ is_cancellation_requested(Polled)
    /\ disk' = Polled
    /\ ex' = [ex EXCEPT !.pc = "cancel_raised", !.current_step = StageLabel(CurStage.name)]
    /\ UNCHANGED <<cancellation, broke, Env>>

AtStep == ex.pc = "loop" /\ ex.step_idx < Len(CurSteps)

\* The poll before a step finds cancellation requested (453-454, 676-677).
CancelBeforeStep ==
    /\ AtStep
    /\ is_cancellation_requested(Polled)
    /\ disk' = Polled
    /\ ex' = [ex EXCEPT !.pc = "cancel_raised", !.current_step = CurStep.id]
    /\ UNCHANGED <<cancellation, broke, Env>>

\* A guarded step that is passed over without a record in the skipped list.
SkipSilently ==
    /\ AtStep
    /\ ~is_cancellation_requested(Polled)
    /\ CurStep.kind = "guarded"
    /\ disk' = Polled
    /\ ex' = [ex EXCEPT !.step_idx = @ + 1]
    /\ UNCHANGED <<cancellation, broke, Env>>

\* The step's condition is false (464-476, 682-693): record it in the
\* skipped list and continue with the next step; nothing is saved.
SkipStep ==
    /\ AtStep
    /\ ~is_cancellation_requested(Polled)
    /\ CurStep.kind = "guarded"
    /\ disk' = Polled
    /\ ex' = [ex EXCEPT !.context.skipped_steps = Append(@, CurStep.id),
                        !.step_idx = @ + 1]
    /\ UNCHANGED <<cancellation, broke, Env>>

\* The checkpoint after the step at the current index: completed_steps
\* gains the step, the index advances, the state is saved
\* (485-498, 531-546, 702-713, 745-755).
Checkpoint(context) ==
    LET completed_steps == Append(ex.completed_steps, CurStep.id)
    IN  /\ ex' = [ex EXCEPT !.pc = "loop",
                            !.context = context,
                            !.completed_steps = completed_steps,
                            !.state = IF is_staged(recipe) THEN @ ELSE CheckpointIndex(ex.step_idx),
                            !.step_idx = @ + 1]
        /\ disk' = IF is_staged(recipe)
                   THEN save_state(StagedState(ex.stage_idx, CheckpointIndex(ex.step_idx),
                                               context, ex.completed_stages, completed_steps))
                   ELSE save_state(FlatState(CheckpointIndex(ex.step_idx), context,
                                             completed_steps))

\* A foreach over an empty list (_execute_loop 1177-1188): the step is
\* recorded as skipped, its collect variable is set, and the step loop
\* checkpoints it as completed.  No iteration is dispatched.
EmptyLoop ==
    /\ AtStep
    /\ ~is_cancellation_requested(Polled)
    /\ CurStep.kind = "empty"
    /\ Checkpoint([outputs       |-> ex.context.outputs \cup {CurStep.id},
                   skipped_steps |-> Append(ex.context.skipped_steps, CurStep.id)])
    /\ UNCHANGED <<cancellation, broke, Env>>

\* The step is dispatched: agent spawn, bash command, sub-recipe or the
\* iterations of a foreach.
Dispatch ==
    /\ AtStep
    /\ ~is_cancellation_requested(Polled)
    /\ CurStep.kind = "run"
    /\ disk' = Polled
    /\ ex' = [ex EXCEPT !.pc = "step", !.dispatched = Append(@, CurStep.id)]
    /\ UNCHANGED <<cancellation, broke, Env>>

\* The dispatched step returns (also with a null result under
\* on_error = continue): store the output and checkpoint.
StepDone ==
    /\ ex.pc = "step"
    /\ Checkpoint([ex.context EXCEPT !.outputs = @ \cup {CurStep.id}])
    /\ UNCHANGED <<cancellation, broke, Env>>

\* The handler of an ordinary exception (566-570, 816-828): save and re-raise.
\* Flat: the dict `state` of the last checkpoint of this invocation, if any,
\* whose context and completed_steps are the live objects.  Staged: the
\* position loaded on entry with the live lists and context.
FailureState ==
    IF is_staged(recipe)
    THEN save_state(StagedState(ex.current_stage_index, ex.current_step_in_stage,
                                ex.context, ex.completed_stages, ex.completed_steps))
    ELSE IF ex.state # -1
         THEN save_state(FlatState(ex.state, ex.context, ex.completed_steps))
         ELSE disk

\* The dispatched step raises an ordinary exception.
StepFail ==
    /\ ex.pc = "step"
    /\ disk' = FailureState
    /\ ex' = Stopped("failed")
    /\ UNCHANGED <<cancellation, broke, Env>>

\* The dispatched step raises SkipRemainingError (499-500, 548-550,
\* 714-715, 757-758): break out of the step loop.  Flat: the recipe
\* returns its context.  Staged: the stage counts as finished.
StepSkipRemaining ==
    /\ ex.pc = "step"
    /\ ex' = IF is_staged(recipe) THEN [ex EXCEPT !.pc = "stage_done"] ELSE Stopped("completed")
    /\ broke' = TRUE
    /\ UNCHANGED <<disk, cancellation, Env>>

\* A poll inside the dispatched step (before a retry attempt 903-905,
\* before a foreach iteration 1231-1233) finds cancellation requested.
CancelInStep ==
    /\ ex.pc = "step"
    /\ is_cancellation_requested(Polled)
    /\ disk' = Polled
    /\ ex' = [ex EXCEPT !.pc = "cancel_raised", !.current_step = CurStep.id]
    /\ UNCHANGED <<cancellation, broke, Env>>

\* The step loop of a stage is exhausted.
StepsExhausted ==
    /\ is_staged(recipe) /\ ex.pc = "loop" /\ ex.step_idx >= Len(CurSteps)
    /\ ex' = [ex EXCEPT !.pc = "stage_done"]
    /\ UNCHANGED <<disk, cancellation, broke, Env>>

\* Stage completed, no approval needed (764, 790-793): save progress and
\* continue with the next stage.
StageCompleteOpen ==
    /\ ex.pc = "stage_done"
    /\ ~CurStage.approval.required
    /\ LET completed_stages == Append(ex.completed_stages, CurStage.name)
       IN  /\ disk' = save_state(StagedState(ex.stage_idx + 1, 0, ex.context,
                                             completed_stages, ex.completed_steps))
           /\ ex' = [ex EXCEPT !.pc = "stage",
                               !.completed_stages = completed_stages,
                               !.stage_idx = @ + 1]
    /\ UNCHANGED <<cancellation, broke, Env>>

\* Stage completed at an approval gate (764-771): first save the state
\* with the next stage as target.
StageCompleteGated ==
    /\ ex.pc = "stage_done"
    /\ CurStage.approval.required
    /\ LET completed_stages == Append(ex.completed_stages, CurStage.name)
       IN  /\ disk' = save_state(StagedState(ex.stage_idx + 1, 0, ex.context,
                                             completed_stages, ex.completed_steps))
           /\ ex' = [ex EXCEPT !.pc = "gate", !.completed_stages = completed_stages]
    /\ UNCHANGED <<cancellation, broke, Env>>

\* Then set the pending approval and raise ApprovalGatePausedError (773-788).
GatePause ==
    /\ ex.pc = "gate"
    /\ disk' = set_pending_approval(disk, CurStage.name, CurStage.approval.timeout,
                                    CurStage.approval.default)
    /\ timed_out' = FALSE
    /\ ex' = Stopped("paused")
    /\ UNCHANGED <<recipe, comp, loop, eng, tree, runs, granted, denied, cancellation, broke>>

\* The handler of CancellationRequestedError (555-564, 798-815), first
\* write: mark the session cancelled.  A flat run whose `state` is None
\* writes nothing more.
MarkCancelled ==
    /\ ex.pc = "cancel_raised"
    /\ disk' = mark_cancelled(disk, ex.current_step)
    /\ ex' = IF ~is_staged(recipe) /\ ex.state = -1
             THEN Stopped("cancelled")
             ELSE [ex EXCEPT !.pc = "cancel_marked"]
    /\ UNCHANGED <<cancellation, broke, Env>>

\* The state saved by the cancellation handler after mark_cancelled.
CancelState ==
    IF is_staged(recipe)
    THEN save_state(StagedState(ex.current_stage_index, ex.current_step_in_stage,
                                ex.context, ex.completed_stages, ex.completed_steps))
    ELSE save_state(FlatState(ex.state, ex.context, ex.completed_steps))

\* The handler of CancellationRequestedError, second write: save the state.
CancelSave ==
    /\ ex.pc = "cancel_marked"
    /\ disk' = CancelState
    /\ ex' = Stopped("cancelled")
    /\ UNCHANGED <<cancellation, broke, Env>>

\* The engine process dies; its memory and the coordinator's flag are gone.
Crash ==
    /\ ex.pc # "idle"
    /\ ex' = Stopped("crashed")
    /\ cancellation' = "none"
    /\ UNCHANGED <<disk, broke, Env>>

\* ------------------------------------------------------------------------
\* Outer tool: approve, deny, cancel; the environment
\* ------------------------------------------------------------------------
\* RecipesTool._approve_stage: requires a pending approval for the stage
\* named; records APPROVED.  The pending marker stays.
Approve ==
    /\ disk.exists
    /\ \E stage_name \in StageNames :
          /\ get_pending_approval(disk).stage_name = stage_name
          /\ get_stage_approval_status(disk, stage_name) # "approved"
          /\ disk' = set_stage_approval_status(disk, stage_name, "approved")
          /\ granted' = granted \cup {stage_name}
    /\ UNCHANGED <<recipe, comp, loop, eng, tree, ex, cancellation, timed_out, runs, denied, broke>>

\* RecipesTool._deny_stage: requires a pending approval for the stage
\* named; records DENIED and clears the pending marker.
Deny ==
    /\ disk.exists
    /\ \E stage_name \in StageNames :
          /\ get_pending_approval(disk).stage_name = stage_name
          /\ disk' = clear_pending_approval(
                         set_stage_approval_status(disk, stage_name, "denied"))
          /\ denied' = denied \cup {stage_name}
          /\ granted' = granted \ {stage_name}
    /\ UNCHANGED <<recipe, comp, loop, eng, tree, ex, cancellation, timed_out, runs, broke>>

\* RecipesTool._cancel_recipe: refused for a cancelled session, otherwise
\* request_cancellation.  The tool runs on the engine's event loop, so it
\* acts while the engine awaits a step or is not running.
Cancel ==
    /\ disk.exists
    /\ ex.pc \in {"idle", "step"}
    /\ disk.cancellation_status # "cancelled"
    /\ \E immediate \in BOOLEAN :
          /\ disk' = request_cancellation(disk, immediate)
          /\ disk' # disk
    /\ UNCHANGED <<recipe, comp, loop, eng, tree, ex, cancellation, timed_out, runs, granted,
                   denied, broke>>

\* The coordinator's process-wide cancellation flag is set (SIGINT) while
\* the engine awaits a step; a second signal makes it immediate.
Sigint ==
    /\ ex.pc = "step"
    /\ \/ cancellation = "none" /\ cancellation' \in {"graceful", "immediate"}
       \/ cancellation = "graceful" /\ cancellation' = "immediate"
    /\ UNCHANGED <<recipe, comp, loop, eng, tree, disk, ex, timed_out, runs, granted, denied, broke>>

\* Time passes beyond requested_at + timeout of the pending approval.
Tick ==
    /\ disk.exists
    /\ disk.pending_approval.stage_name # 0
    /\ disk.pending_approval.timeout > 0
    /\ ~timed_out
    /\ timed_out' = TRUE
    /\ UNCHANGED <<recipe, comp, loop, eng, tree, disk, ex, cancellation, runs, granted, denied, broke>>

Next ==
    \/ Execute \/ Resume
    \/ Finish \/ EnterStage \/ CancelBeforeStage
    \/ CancelBeforeStep \/ SkipStep \/ EmptyLoop \/ Dispatch
    \/ StepDone \/ StepFail \/ StepSkipRemaining \/ CancelInStep
    \/ StepsExhausted \/ StageCompleteOpen \/ StageCompleteGated \/ GatePause
    \/ MarkCancelled \/ CancelSave \/ Crash
    \/ Approve \/ Deny \/ Cancel \/ Sigint \/ Tick

Spec == Init /\ [][Next]_vars


\* The operations of the approval protocol alone: execute, resume, approve
\* and deny with the passing of time; no crash and no cancellation.
NextGate ==
    \/ Execute \/ Resume
    \/ Finish \/ EnterStage
    \/ SkipStep \/ EmptyLoop \/ Dispatch
    \/ StepDone \/ StepFail \/ StepSkipRemaining
    \/ StepsExhausted \/ StageCompleteOpen \/ StageCompleteGated \/ GatePause
    \/ Approve \/ Deny \/ Tick

SpecGate == Init /\ [][NextGate]_vars

\* ------------------------------------------------------------------------
\* Properties
\* ------------------------------------------------------------------------
Range(xs) == {xs[k] : k \in 1..Len(xs)}

\* The stage before the one the executor is in (stage_idx is 0-based).
PrevStage == recipe.stages[ex.stage_idx]

\* C1 (approval-gate safety): while a step of stage k+1 is dispatched, stage
\* k either needs no approval or has been approved, by the user or by the
\* timeout default.
ApprovalGateSafety ==
    (is_staged(recipe) /\ ex.pc = "step" /\ ex.stage_idx > 0 /\ PrevStage.approval.required)
        => PrevStage.name \in granted

\* The ids of the steps of kind run among the steps at indices a..b-1 of
\* the flat recipe, in order.
RunIds(a, b) ==
    LET ids == [j \in 1..Len(recipe.steps) |-> recipe.steps[j].id]
    IN  SelectSeq(SubSeq(ids, a + 1, b),
                  LAMBDA id : \E j \in 1..Len(recipe.steps) :
                                 recipe.steps[j].id = id /\ recipe.steps[j].kind = "run")

IsPrefix(xs, ys) == Len(xs) <= Len(ys) /\ SubSeq(ys, 1, Len(xs)) = xs

\* C2 (flat resume): a resumed flat run dispatches exactly the steps from the
\* persisted current_step_index on, none of which is in the persisted
\* completed_steps, and builds on the persisted context.
FlatResume ==
    (~is_staged(recipe) /\ ex.is_resuming /\ ex.pc \in {"loop", "step"}) =>
        /\ ex.step_idx >= ex.loaded.current_step_index
        /\ ex.dispatched = RunIds(ex.loaded.current_step_index,
                                  IF ex.pc = "step" THEN ex.step_idx + 1 ELSE ex.step_idx)
        /\ Range(ex.dispatched) \cap Range(ex.loaded.completed_steps) = {}
        /\ ex.loaded.context.outputs \subseteq ex.context.outputs
        /\ IsPrefix(ex.loaded.context.skipped_steps, ex.context.skipped_steps)

\* Witness of C2: a flat run resumed after a checkpoint has a step in flight.
FlatResumeWitness ==
    /\ ~is_staged(recipe) /\ ex.is_resuming /\ ex.pc = "step"
    /\ ex.loaded.current_step_index > 0
    /\ ex.loaded.completed_steps # << >>
    /\ ex.step_idx = ex.loaded.current_step_index

\* A step of the executor in which a step of the recipe completes.
StepCompletes ==
    /\ ex.pc \in {"loop", "step"}
    /\ ex'.pc = "loop"
    /\ ex'.completed_steps # ex.completed_steps

\* C3 (checkpoint invariant): when the step at index i completes, the state
\* written has current_step_index = i+1 (flat) or current_step_in_stage =
\* i+1 with the index of the stage being run (staged), and the step's id is
\* in completed_steps.
CheckpointInvariant ==
    [][StepCompletes =>
          /\ CurStep.id \in Range(disk'.completed_steps)
          /\ IF is_staged(recipe)
             THEN /\ disk'.current_step_in_stage = ex.step_idx + 1
                  /\ disk'.current_stage_index = ex.stage_idx
             ELSE disk'.current_step_index = ex.step_idx + 1]_vars

\* Witness of C3: right after the checkpoint of the second step of the
\* second stage.
CheckpointWitness ==
    /\ is_staged(recipe) /\ ex.pc = "loop"
    /\ ex.stage_idx = 1 /\ ex.step_idx = 2
    /\ disk.current_stage_index = 1 /\ disk.current_step_in_stage = 2
    /\ disk.completed_steps = ex.completed_steps
    /\ Len(ex.completed_steps) > 0

\* The persisted position; pairs are compared lexicographically.
Position(d) ==
    IF is_staged(recipe)
    THEN <<d.current_stage_index, d.current_step_in_stage>>
    ELSE <<0, d.current_step_index>>

LexLeq(p, q) == p[1] < q[1] \/ (p[1] = q[1] /\ p[2] <= q[2])

\* C4 (checkpoints advance monotonically): no save moves the persisted
\* position backwards.
CheckpointsMonotone ==
    [][(disk.exists /\ disk'.exists) => LexLeq(Position(disk), Position(disk'))]_vars

\* C5 (staged failure keeps the last checkpoint): a step failure in a staged
\* recipe leaves the persisted position where the last checkpoint put it,
\* and a resumed staged run dispatches no step of the persisted
\* completed_steps and runs no stage of the persisted completed_stages.
StagedFailureKeepsCheckpoint ==
    [][/\ (is_staged(recipe) /\ ex.pc = "step" /\ ex'.outcome = "failed")
           => Position(disk') = Position(disk)
       /\ (is_staged(recipe) /\ ex'.is_resuming /\ ex'.pc = "step")
           => /\ CurStep'.id \notin Range(ex'.loaded.completed_steps)
              /\ CurStage'.name \notin Range(ex'.loaded.completed_stages)]_vars

\* The context an uninterrupted execution ends with: every step of kind
\* run or empty has written its output, every guarded or empty step is in
\* the skipped list once, in order.
RECURSIVE ContextAfter(_, _)
ContextAfter(context, steps) ==
    IF steps = << >> THEN context
    ELSE LET step == Head(steps)
             next == [outputs       |-> IF step.kind = "guarded"
                                        THEN context.outputs
                                        ELSE context.outputs \cup {step.id},
                      skipped_steps |-> IF step.kind = "run"
                                        THEN context.skipped_steps
                                        ELSE Append(context.skipped_steps, step.id)]
         IN  ContextAfter(next, Tail(steps))

UninterruptedContext == ContextAfter(EmptyContext, get_all_steps(recipe))

\* C6 (resume equivalence): a session that completes, however often it was
\* interrupted and resumed, ends with the context of an uninterrupted
\* execution (no step loop having been cut short by skip-remaining).
ResumeEquivalence ==
    (ex.outcome = "completed" /\ ~broke) => ex.context = UninterruptedContext

\* C7 (deny is final): once a stage has been denied, no invocation runs: the
\* session stays paused or fails with stage-denied, and the denied stage
\* stays in the persisted completed_stages.
DenyIsFinal ==
    denied # {} =>
        /\ ex.pc = "idle"
        /\ ex.outcome \in {"paused", "denied"}
        /\ denied \subseteq Range(disk.completed_stages)

\* A resume of a session whose gated stage is approved, explicitly or by
\* the timeout default.
ResumeOfApproved ==
    /\ ex.pc = "idle" /\ disk.exists /\ runs' = runs + 1
    /\ get_pending_approval(disk).stage_name # 0
    /\ \/ get_stage_approval_status(disk, get_pending_approval(disk).stage_name) = "approved"
       \/ check_approval_timeout(disk, timed_out) = "approved"

\* C8 (approve continues): such a resume clears the pending marker and
\* continues at step 0 of the stage after the approved one, also when the
\* approval timeout has elapsed after an explicit approval.
ApproveContinues ==
    [][ResumeOfApproved =>
          /\ ex'.pc = "stage"
          /\ ex'.stage_idx = get_pending_approval(disk).stage_name
          /\ ex'.step_idx = 0
          /\ ex'.dispatched = << >>
          /\ get_pending_approval(disk').stage_name = 0]_vars

\* C9 (crash at the gate): a crash after the gate's state save and before
\* set_pending_approval leaves the approval request of the finished stage
\* in the persisted session.
CrashAtGateKeepsRequest ==
    [][(ex.pc = "gate" /\ ex'.outcome = "crashed")
          => get_pending_approval(disk').stage_name = CurStage.name]_vars

CancelRank(status) ==
    CASE status = "none" -> 0
      [] status = "requested" -> 1
      [] status = "immediate" -> 2
      [] status = "cancelled" -> 3

\* C10 (cancellation monotonicity): the persisted cancellation_status never
\* moves backwards along none, requested, immediate, cancelled.
CancellationMonotone ==
    [][(disk.exists /\ disk'.exists)
          => CancelRank(disk'.cancellation_status) >= CancelRank(disk.cancellation_status)]_vars

\* C11 (cancelled outcome is persisted): when an invocation ends by raising
\* CancellationRequestedError, the session on disk has cancellation_status
\* cancelled and cancelled_at_step is the step the error names.
CancelledOutcomePersisted ==
    [][(ex.outcome = "running" /\ ex'.outcome = "cancelled")
          => /\ disk'.cancellation_status = "cancelled"
             /\ disk'.cancelled_at_step = ex.current_step]_vars

\* A resume of a session that is marked cancelled.
ResumeOfCancelled ==
    /\ ex.pc = "idle" /\ disk.exists /\ runs' = runs + 1
    /\ disk.cancellation_status = "cancelled"

\* C16 (a cancelled session is resumable): resume of a cancelled session
\* clears the mark and runs, and when a run completes the status is none.
CancelledIsResumable ==
    [][/\ ResumeOfCancelled
           => /\ disk'.cancellation_status = "none"
              /\ ex'.outcome = "running"
       /\ (/\ ex.outcome = "running" /\ ex.is_resuming
           /\ ex.loaded.cancellation_status = "cancelled"
           /\ ex'.outcome = "completed")
           => disk'.cancellation_status = "none"]_vars

\* The executor passes the poll before a stage or before a step.
PassesPoll ==
    /\ \/ is_staged(recipe) /\ ex.pc = "stage" /\ ex.stage_idx < Len(recipe.stages)
       \/ AtStep
    /\ ex' # ex
    /\ ex'.outcome # "crashed"

\* C17 (process-wide cancellation propagates): a poll reached with the
\* coordinator's flag set records the request on the session with the
\* flag's immediacy and raises; with the flag clear it records no request.
CoordinatorPropagates ==
    [][PassesPoll =>
          IF cancellation # "none"
          THEN /\ is_cancellation_requested(disk')
               /\ cancellation = "immediate" => is_immediate_cancellation(disk')
               /\ ex'.pc = "cancel_raised"
          ELSE is_cancellation_requested(disk') => is_cancellation_requested(disk)]_vars

\* ------------------------------------------------------------------------
\* Agent calls: execute_step_with_retry under the rate limiter, called for
\* a plain agent step (519-522), for the iterations of a sequential foreach
\* (_execute_loop_sequential) and for those of a parallel foreach
\* (_execute_loop_parallel).
\* ------------------------------------------------------------------------
\* What the step engine leaves alone.
Executor == <<recipe, comp, loop, ex, cancellation, timed_out, granted, denied, broke>>

\* The session was checkpointed after s1 and the step loop is at s2, either
\* in the invocation that ran s1 (state is the checkpoint) or in a resumed
\* one (state is None).
InitStep ==
    /\ recipe = FlatRecipe(3, [j \in 1..3 |-> "run"])
    /\ ex = Idle
    /\ cancellation = "none"
    /\ timed_out = FALSE
    /\ granted = {}
    /\ denied = {}
    /\ broke = FALSE
    /\ tree = NoTree
    /\ loop = NoLoop
    /\ comp = NoComposition
    /\ runs = 1
    /\ disk = save_state(FlatState(StepIndex, ContextBefore, CompletedBefore))
    /\ \E shape \in StepShapes, items \in 1..MaxItems, max_attempts \in 1..MaxAttempts,
          on_error \in OnError, slots \in 0..MaxSlots, state \in {-1, StepIndex} :
          /\ shape \in {"agent", "bash"} => items = 1
          /\ shape = "bash" => max_attempts = 1 /\ slots = 0
          /\ eng = StepRun(shape, items, max_attempts, on_error,
                           IF slots = 0 THEN NoLimiter ELSE RateLimiter(slots), state)

\* The calls between rate_limiter.acquire and the end of the sleep, and
\* the bash step that waits for its subprocess.
InFlight(e) == {t \in 1..e.items : e.task[t].pc \in {"acquire", "call", "sleep", "bash"}}

\* Calls inside execute_step.
Running(e) == {t \in 1..e.items : e.task[t].pc = "call"}

\* The document the handlers of execute_recipe leave (555-570): the
\* cancellation handler marks the session, and both handlers save `state`
\* when it is not None.
Handled(e, d, pc, current_step) ==
    LET marked == IF pc = "cancelled" THEN mark_cancelled(d, current_step) ELSE d
    IN  IF e.state # -1
        THEN save_state(FlatState(e.state, ContextBefore, CompletedBefore))
        ELSE marked

\* The checkpoint after the step (485-498, 531-546).
StepCheckpoint ==
    save_state(FlatState(CheckpointIndex(StepIndex),
                         [ContextBefore EXCEPT !.outputs = @ \cup {StepId}],
                         Append(CompletedBefore, StepId)))

\* A step that ends only when every call has returned.
WaitForAll(e, d, t, o) ==
    IF e.pc = "running" /\ \A u \in 1..e.items : e.task[u].pc = "returned"
    THEN "completed"
    ELSE e.pc

\* How the step stands once call t has ended with outcome o: an exception
\* of any call ends it (fail-fast; asyncio.gather surfaces the first one),
\* a sequential loop polls before its next iteration, and the step is
\* complete when every call has returned.
StepAfter(e, d, t, o) ==
    IF e.pc # "running" THEN e.pc
    ELSE CASE o = "raised"    -> "failed"
           [] o = "skip"      -> "skipped"
           [] o = "cancelled" -> "cancelled"
           [] OTHER ->
                IF e.shape = "sequential" /\ t < e.items
                THEN IF is_cancellation_requested(d) THEN "cancelled" ELSE "running"
                ELSE IF \A u \in 1..e.items : e.task[u].pc = "returned"
                     THEN "completed"
                     ELSE "running"

\* Call t has ended with outcome o; e is the step with that call updated.
\* While the step is running its end is handled by execute_recipe: the
\* checkpoint and the poll before s3 (450-454), or a handler.  A call that
\* outlives its step changes nothing but itself.
TaskEnds(e, t, o) ==
    LET pc      == StepAfter(e, disk, t, o)
        label   == IF o = "cancelled" THEN StepId ELSE IterationLabel(StepId, t)
        next    == IF pc = "running" /\ e.shape = "sequential" /\ o = "returned"
                   THEN [e EXCEPT !.task[t + 1].pc = "acquire"]
                   ELSE e
        done    == [next EXCEPT !.pc = "completed", !.state = CheckpointIndex(StepIndex)]
    IN  CASE e.pc # "running" ->
                /\ eng' = e
                /\ disk' = disk
          [] pc = "completed" ->
                IF is_cancellation_requested(StepCheckpoint)
                THEN /\ eng' = [done EXCEPT !.pc = "cancelled"]
                     /\ disk' = save_state(StepCheckpoint)
                ELSE /\ eng' = done
                     /\ disk' = StepCheckpoint
          [] pc \in {"cancelled", "failed"} ->
                /\ eng' = [next EXCEPT !.pc = pc]
                /\ disk' = Handled(e, disk, pc, label)
          [] OTHER ->
                /\ eng' = [next EXCEPT !.pc = pc]
                /\ disk' = disk

\* The poll before the step (450-454) and, with no await in between, the
\* polls on entry of the loop and of the first attempt (1229-1233,
\* 1305-1308, 901-905): the sequential loop starts its first iteration, the
\* parallel loop starts them all; a bash step starts its subprocess
\* (509-511).
StepPoll ==
    /\ eng.pc = "poll"
    /\ IF is_cancellation_requested(disk)
       THEN /\ eng' = [eng EXCEPT !.pc = "cancelled"]
            /\ disk' = Handled(eng, disk, "cancelled", StepId)
       ELSE /\ eng' = [eng EXCEPT !.pc = "running",
                                  !.task = [t \in 1..eng.items |->
                                               IF eng.shape = "bash"
                                               THEN Task("bash")
                                               ELSE IF eng.shape = "parallel" \/ t = 1
                                               THEN Task("acquire")
                                               ELSE Task("pending")]]
            /\ disk' = disk
    /\ UNCHANGED <<runs, tree, Executor>>

\* 906-912: rate_limiter.acquire returns and execute_step is entered.
AttemptAcquire(t) ==
    /\ eng.task[t].pc = "acquire"
    /\ eng.rate_limiter # NoLimiter => CanAcquire(eng.rate_limiter)
    /\ eng' = [eng EXCEPT !.task[t].pc = "call",
                          !.task[t].calls = @ + 1,
                          !.rate_limiter = IF @ = NoLimiter THEN @ ELSE acquire(@)]
    /\ UNCHANGED <<disk, runs, tree, Executor>>

\* 912-920: execute_step returns; the slot is released in the finally.
AttemptReturns(t) ==
    /\ eng.task[t].pc = "call"
    /\ TaskEnds([eng EXCEPT !.task[t].pc = "returned",
                            !.task[t].result = "value",
                            !.rate_limiter = IF @ = NoLimiter THEN @ ELSE release(@)],
                t, "returned")
    /\ UNCHANGED <<runs, tree, Executor>>

\* 917-942: execute_step raises; the slot is released in the finally; the
\* last attempt obeys on_error, any other one goes to sleep.
AttemptRaises(t) ==
    /\ eng.task[t].pc = "call"
    /\ LET released == [eng EXCEPT !.rate_limiter =
                                       IF @ = NoLimiter THEN @ ELSE release(@)]
           o == OnErrorOutcome(eng.on_error)
       IN  IF LastAttempt(eng.task[t].attempt, eng.max_attempts)
           THEN TaskEnds([released EXCEPT !.task[t].pc = o,
                                          !.task[t].failed = TRUE,
                                          !.task[t].result =
                                              IF o = "returned" THEN "none" ELSE @],
                         t, o)
           ELSE /\ eng' = [released EXCEPT !.task[t].pc = "sleep"]
                /\ disk' = disk
    /\ UNCHANGED <<runs, tree, Executor>>

\* 942, 901-905: the sleep ends and the next attempt begins with its poll.
AttemptRetry(t) ==
    /\ eng.task[t].pc = "sleep"
    /\ LET again == [eng EXCEPT !.task[t].attempt = @ + 1]
       IN  IF is_cancellation_requested(disk)
           THEN TaskEnds([again EXCEPT !.task[t].pc = "cancelled"], t, "cancelled")
           ELSE /\ eng' = [again EXCEPT !.task[t].pc = "acquire"]
                /\ disk' = disk
    /\ UNCHANGED <<runs, tree, Executor>>

\* _execute_bash_step (1664-1681): the command exits.  A non-zero exit code
\* raises only under on_error "fail"; otherwise the result is returned to
\* the caller, which stores stdout and checkpoints the step (511-546).
BashExits ==
    /\ eng.task[1].pc = "bash"
    /\ \E exit_code \in {0, 1} :
          IF exit_code # 0 /\ eng.on_error = "fail"
          THEN TaskEnds([eng EXCEPT !.task[1].pc = "raised",
                                    !.task[1].failed = TRUE],
                        1, "raised")
          ELSE TaskEnds([eng EXCEPT !.task[1].pc = "returned",
                                    !.task[1].failed = exit_code # 0,
                                    !.task[1].result = "value"],
                        1, "returned")
    /\ UNCHANGED <<runs, tree, Executor>>

\* RecipesTool._cancel_recipe while the step awaits, or before the resumed
\* invocation begins.
CancelStep ==
    /\ \/ eng.pc = "running"
       \/ eng.pc = "poll" /\ eng.state = -1
    /\ disk.cancellation_status # "cancelled"
    /\ \E immediate \in BOOLEAN :
          /\ disk' = request_cancellation(disk, immediate)
          /\ disk' # disk
          /\ eng' = [eng EXCEPT
                       !.requested_at =
                           IF @ = 0 /\ eng.pc = "running" /\ eng.shape # "parallel"
                                    /\ InFlight(eng) # {}
                           THEN CHOOSE t \in InFlight(eng) : TRUE
                           ELSE @,
                       !.immediate = @ \/ immediate]
    /\ UNCHANGED <<runs, tree, Executor>>

\* execute_recipe with the session id after a failed or cancelled
\* invocation: the step loop restarts at the persisted index with a new
\* rate limiter (357-361) and state None.
ResumeStep ==
    /\ eng.pc \in {"failed", "cancelled"}
    /\ InFlight(eng) = {}
    /\ runs < MaxRuns
    /\ load_state(disk).current_step_index = StepIndex
    /\ eng' = StepRun(eng.shape, eng.items, eng.max_attempts, eng.on_error,
                      IF eng.rate_limiter = NoLimiter THEN NoLimiter
                      ELSE RateLimiter(eng.rate_limiter.max_concurrent),
                      -1)
    /\ runs' = runs + 1
    /\ UNCHANGED <<disk, tree, Executor>>

NextStep ==
    \/ StepPoll
    \/ \E t \in 1..eng.items : AttemptAcquire(t)
    \/ \E t \in 1..eng.items : AttemptReturns(t)
    \/ \E t \in 1..eng.items : AttemptRaises(t)
    \/ \E t \in 1..eng.items : AttemptRetry(t)
    \/ BashExits
    \/ CancelStep
    \/ ResumeStep

SpecStep == InitStep /\ [][NextStep]_vars

\* C12 (graceful cancellation lets the in-flight step complete): when
\* cancellation is requested gracefully, and never immediately, while a
\* plain agent step is in flight, the step is not aborted between its
\* retry attempts, and once it has completed and is checkpointed the poll
\* before the next step raises, so that no later step is dispatched.
GracefulLetsStepComplete ==
    (eng.shape = "agent" /\ eng.requested_at = 1 /\ ~eng.immediate)
        => /\ eng.task[1].pc # "cancelled"
           /\ eng.pc # "completed"

\* C13 (cancellation inside a sequential foreach): once cancellation is
\* requested during iteration k of a sequential foreach that has a later
\* iteration, iteration k is not aborted, no iteration after k is
\* dispatched, the step's id is not added to completed_steps, its collect
\* variable is not written, and the session ends as cancelled.
ForeachCancellation ==
    (eng.shape = "sequential" /\ eng.requested_at # 0 /\ eng.requested_at < eng.items)
        => LET k == eng.requested_at
           IN  /\ eng.task[k].pc # "cancelled"
               /\ \A j \in (k + 1)..eng.items : eng.task[j].pc = "pending"
               /\ StepId \notin Range(disk.completed_steps)
               /\ StepId \notin disk.context.outputs
               /\ eng.pc = "cancelled" => disk.cancellation_status = "cancelled"

\* C18 (rate-limit concurrency cap): under a rate limiter of N slots, at
\* most N calls of execute_step are running at any time, whether they come
\* from a plain step, from retries or from the iterations of a foreach.
ConcurrencyCap ==
    eng.rate_limiter # NoLimiter
        => Cardinality(Running(eng)) <= eng.rate_limiter.max_concurrent

\* Witness of C18: a parallel foreach has filled every slot and a further
\* iteration waits in acquire.
ConcurrencyCapWitness ==
    /\ eng.shape = "parallel"
    /\ eng.rate_limiter # NoLimiter
    /\ Cardinality(Running(eng)) = eng.rate_limiter.max_concurrent
    /\ \E t \in 1..eng.items : eng.task[t].pc = "acquire"

\* C19 (acquire/release pairing): every slot taken is held by a running
\* call and is given back exactly once when the call ends, by return or by
\* exception, retried or final; so the free slots are always N minus the
\* running calls, all N are free when no call is running, and there are
\* never more than N.
AcquireReleasePaired ==
    eng.rate_limiter # NoLimiter
        => /\ eng.rate_limiter.semaphore
                 = eng.rate_limiter.max_concurrent - Cardinality(Running(eng))
           /\ eng.rate_limiter.semaphore <= eng.rate_limiter.max_concurrent
           /\ Running(eng) = {} => eng.rate_limiter.semaphore = eng.rate_limiter.max_concurrent

\* Witness of C19: no call is running after one call failed, slept and was
\* cancelled at the poll of its retry, and another failed and ended on its
\* last attempt.
AcquireReleaseWitness ==
    /\ eng.rate_limiter # NoLimiter
    /\ Running(eng) = {}
    /\ eng.rate_limiter.semaphore = eng.rate_limiter.max_concurrent
    /\ \E t, u \in 1..eng.items :
          /\ eng.task[t].pc = "cancelled"
          /\ eng.task[u].pc \in {"raised", "skip", "returned"} /\ eng.task[u].attempt > 0

\* C25 (retry attempt count): an agent step's call whose last attempt
\* failed, so that on_error was applied, has made exactly max_attempts
\* calls of execute_step and is in its last attempt; a call that returned
\* a result on attempt k (counted from 1) has made exactly k calls.
RetryAttemptCount ==
    \A t \in 1..eng.items :
        eng.shape # "bash" =>
            /\ eng.task[t].failed =>
                   /\ eng.task[t].calls = eng.max_attempts
                   /\ eng.task[t].attempt = eng.max_attempts - 1
            /\ (eng.task[t].pc = "returned" /\ ~eng.task[t].failed) =>
                   eng.task[t].calls = eng.task[t].attempt + 1
            /\ eng.task[t].pc \in {"raised", "skip"} => eng.task[t].failed

\* Both cases with retries: a call that failed max_attempts = 2 times, and
\* a call that succeeded on its second attempt.
RetryAttemptCountWitness ==
    /\ eng.max_attempts = 2
    /\ eng.shape = "parallel"
    /\ \E t, u \in 1..eng.items :
          /\ eng.task[t].failed /\ eng.task[t].calls = 2
          /\ eng.task[u].pc = "returned" /\ ~eng.task[u].failed /\ eng.task[u].calls = 2

\* C26 (on_error continue): when no cancellation is requested and an agent
\* step's last attempt fails under on_error "continue", the step yields
\* None, its output is stored, its id is in completed_steps, the checkpoint
\* stands at index + 1, and the loop has gone on to the next step.
OnErrorContinue ==
    (/\ eng.shape = "agent"
     /\ eng.on_error = "continue"
     /\ eng.task[1].failed
     /\ disk.cancellation_status = "none")
        => /\ eng.task[1].result = "none"
           /\ eng.pc = "completed"
           /\ load_state(disk).current_step_index = StepIndex + 1
           /\ StepId \in Range(load_state(disk).completed_steps)
           /\ StepId \in load_state(disk).context.outputs

\* The step failed on its second attempt and was continued.
OnErrorContinueWitness ==
    /\ eng.shape = "agent"
    /\ eng.on_error = "continue"
    /\ eng.task[1].failed
    /\ eng.task[1].calls = 2
    /\ disk.cancellation_status = "none"
    /\ eng.pc = "completed"

\* C27 (on_error skip_remaining in a flat recipe): when an agent step's
\* last attempt fails under on_error "skip_remaining", the step loop is
\* left without failing or dispatching a later step, the step's id is not
\* in completed_steps and the checkpoint still stands at the step.
SkipRemainingFlat ==
    (/\ eng.shape = "agent"
     /\ eng.on_error = "skip_remaining"
     /\ eng.task[1].failed)
        => /\ eng.pc = "skipped"
           /\ load_state(disk).current_step_index = StepIndex
           /\ StepId \notin Range(load_state(disk).completed_steps)
           /\ StepId \notin load_state(disk).context.outputs

\* The step failed on its second attempt and the loop was left.
SkipRemainingFlatWitness ==
    /\ eng.shape = "agent"
    /\ eng.on_error = "skip_remaining"
    /\ eng.task[1].failed
    /\ eng.task[1].calls = 2
    /\ eng.pc = "skipped"

\* C24 (parallel fail-fast): once an iteration of a parallel foreach has
\* raised, the step has failed (or an earlier cancellation of another
\* iteration has ended it), without waiting for the other iterations; no
\* output of the step is in the persisted context, its id is not in
\* completed_steps and the checkpoint still stands at the step.
ParallelFailFast ==
    (/\ eng.shape = "parallel"
     /\ \E t \in 1..eng.items : eng.task[t].pc = "raised")
        => /\ \/ eng.pc = "failed"
              \/ eng.pc = "cancelled" /\ \E u \in 1..eng.items : eng.task[u].pc = "cancelled"
           /\ load_state(disk).current_step_index = StepIndex
           /\ StepId \notin Range(load_state(disk).completed_steps)
           /\ StepId \notin load_state(disk).context.outputs

\* One iteration raised while another was still inside execute_step, and
\* that one returned afterwards.
ParallelFailFastWitness ==
    /\ eng.shape = "parallel"
    /\ eng.pc = "failed"
    /\ \E t, u \in 1..eng.items :
          /\ eng.task[t].pc = "raised"
          /\ eng.task[u].pc = "returned"

\* C29 (skip_remaining for every step kind): a step of kind agent or bash
\* that fails under on_error "skip_remaining" leaves the step loop, so that
\* no later step is dispatched.
SkipRemainingEveryKind ==
    (/\ eng.shape \in {"agent", "bash"}
     /\ eng.on_error = "skip_remaining"
     /\ eng.task[1].failed)
        => eng.pc = "skipped"

\* ------------------------------------------------------------------------
\* Sub-recipes: execute_recipe called by _execute_recipe_step
\* ------------------------------------------------------------------------
\* What the tree leaves alone.
Outside == <<recipe, comp, loop, eng, disk, ex, timed_out, runs, granted, denied, broke>>

InitTree ==
    /\ recipe = FlatRecipe(3, [j \in 1..3 |-> "run"])
    /\ loop = NoLoop
    /\ comp = NoComposition
    /\ eng = NoStepRun
    /\ disk = NoSession
    /\ ex = Idle
    /\ cancellation = "none"
    /\ timed_out = FALSE
    /\ runs = 0
    /\ granted = {}
    /\ denied = {}
    /\ broke = FALSE
    /\ \E rate_limiting \in [0..MaxNesting -> 0..MaxSlots] : tree = Tree(rate_limiting)

\* The invocation that is running: the innermost one.
Top == tree.stack[Len(tree.stack)]

\* execute_recipe entered with session_id None (357-361, 415, 423): it
\* creates a limiter if it was handed none and its recipe has
\* rate_limiting, creates a session, and polls the session given by
\* CancellationSessionId.
Entered(t, level, rate_limiter, parent_session_id) ==
    LET limiter    == InheritedLimiter(rate_limiter, t.rate_limiting[level], Len(t.limiters))
        session_id == Len(t.sessions) + 1
    IN  [t EXCEPT !.limiters = IF limiter > Len(@) THEN Append(@, level) ELSE @,
                  !.sessions = Append(@, create_session),
                  !.stack    = Append(@, Frame(level, session_id,
                                               CancellationSessionId(session_id, parent_session_id),
                                               limiter)),
                  !.outcome  = "running"]

\* RecipesTool._execute_recipe: the root invocation.
ExecuteTree ==
    /\ tree.outcome = "none"
    /\ tree' = Entered(tree, 0, 0, 0)
    /\ UNCHANGED <<cancellation, Outside>>

\* The session documents after a CancellationRequestedError has gone
\* through the handlers of every invocation on the stack (551-564, and
\* 1455-1465 which lets it through): each marks its own session and saves
\* its `state` when it is not None.
Unwound(sessions, stack, current_step) ==
    [s \in 1..Len(sessions) |->
        IF \E k \in 1..Len(stack) : stack[k].session_id = s
        THEN LET f == stack[CHOOSE k \in 1..Len(stack) : stack[k].session_id = s]
             IN  IF f.state # -1
                 THEN save_state(TreeState(f.state))
                 ELSE mark_cancelled(sessions[s], current_step)
        ELSE sessions[s]]

\* Top of the step loop (447-454, 502-522): poll, then dispatch the step;
\* a step of type "recipe" enters the sub-recipe.
TreePoll ==
    /\ tree.outcome = "running"
    /\ Top.pc = "loop"
    /\ Top.i < Len(TreeSteps(Top.level))
    /\ LET id     == Top.cancellation_session_id
           polled == IF cancellation = "none"
                     THEN tree.sessions
                     ELSE [tree.sessions EXCEPT
                             ![id] = request_cancellation(@, cancellation = "immediate")]
           depth  == Len(tree.stack)
       IN  IF is_cancellation_requested(polled[id])
           THEN tree' = [tree EXCEPT !.sessions = Unwound(polled, tree.stack, Top.i + 1),
                                     !.stack = << >>,
                                     !.outcome = "cancelled"]
           ELSE IF TreeSteps(Top.level)[Top.i + 1] = "agent"
           THEN tree' = [tree EXCEPT !.sessions = polled,
                                     !.stack[depth].pc = "call"]
           ELSE tree' = Entered([tree EXCEPT !.sessions = polled,
                                             !.stack[depth].pc = "sub"],
                                Top.level + 1, Top.rate_limiter, id)
    /\ UNCHANGED <<cancellation, Outside>>

\* The checkpoint of invocation f after its step at index f.i (531-546).
Checkpointed(t, k) ==
    LET f == t.stack[k]
    IN  [t EXCEPT !.sessions[f.session_id] = save_state(TreeState(CheckpointIndex(f.i))),
                  !.stack[k].state = CheckpointIndex(f.i),
                  !.stack[k].i = f.i + 1,
                  !.stack[k].pc = "loop"]

\* The agent call of the running invocation returns.
TreeStepDone ==
    /\ tree.outcome = "running"
    /\ Top.pc = "call"
    /\ tree' = Checkpointed(tree, Len(tree.stack))
    /\ UNCHANGED <<cancellation, Outside>>

\* The step loop of the running invocation is exhausted (572-578): the
\* root returns, a sub-recipe returns into the step of its caller, which
\* is checkpointed.
TreeReturn ==
    /\ tree.outcome = "running"
    /\ Top.pc = "loop"
    /\ Top.i >= Len(TreeSteps(Top.level))
    /\ LET depth  == Len(tree.stack)
           popped == [tree EXCEPT !.stack = SubSeq(@, 1, depth - 1)]
       IN  IF depth = 1
           THEN tree' = [popped EXCEPT !.outcome = "completed"]
           ELSE tree' = Checkpointed(popped, depth - 1)
    /\ UNCHANGED <<cancellation, Outside>>

\* RecipesTool._cancel_recipe on the session of the run (the id that
\* execute returned), while an agent call is awaited.
CancelTree ==
    /\ tree.outcome = "running"
    /\ Top.pc = "call"
    /\ tree.sessions[1].cancellation_status # "cancelled"
    /\ \E immediate \in BOOLEAN :
          /\ tree' = [tree EXCEPT !.sessions[1] = request_cancellation(@, immediate)]
          /\ tree' # tree
    /\ UNCHANGED <<cancellation, Outside>>

\* The coordinator's flag is set while an agent call is awaited.
SigintTree ==
    /\ tree.outcome = "running"
    /\ Top.pc = "call"
    /\ \/ cancellation = "none" /\ cancellation' \in {"graceful", "immediate"}
       \/ cancellation = "graceful" /\ cancellation' = "immediate"
    /\ UNCHANGED <<tree, Outside>>

NextTree ==
    \/ ExecuteTree
    \/ TreePoll
    \/ TreeStepDone
    \/ TreeReturn
    \/ CancelTree
    \/ SigintTree

SpecTree == InitTree /\ [][NextTree]_vars

\* C14 (sub-recipes observe the parent's cancellation): when cancellation
\* has been requested on the session of the run, the next poll inside a
\* sub-recipe raises, so the run ends as cancelled instead of dispatching
\* the sub-recipe's next step.
SubRecipeObservesParent ==
    [][(/\ tree.outcome = "running"
        /\ Len(tree.stack) > 1
        /\ Top.pc = "loop"
        /\ Top.i < Len(TreeSteps(Top.level))
        /\ is_cancellation_requested(tree.sessions[1])
        /\ tree' # tree)
          => tree'.outcome = "cancelled"]_vars

\* C15 (one session per top-level run): a run has one session; no
\* invocation of a sub-recipe creates a session or checkpoints to a session
\* other than that of the run.
OneSessionPerRun ==
    /\ Len(tree.sessions) <= 1
    /\ \A k \in 1..Len(tree.stack) : tree.stack[k].session_id = 1

\* C20 (one rate limiter per recipe tree): at most one RateLimiter is
\* created during a run, it is created by the root recipe, and every
\* invocation in the tree uses the limiter of the root.
OneLimiterPerTree ==
    /\ Len(tree.limiters) <= 1
    /\ \A n \in 1..Len(tree.limiters) : tree.limiters[n] = 0
    /\ \A k \in 1..Len(tree.stack) : tree.stack[k].rate_limiter = tree.stack[1].rate_limiter

\* ------------------------------------------------------------------------
\* foreach: _execute_loop, _execute_loop_sequential, _execute_loop_parallel
\* ------------------------------------------------------------------------
\* What a loop leaves alone.
Around == <<recipe, comp, eng, tree, disk, ex, cancellation, timed_out, runs, granted, denied, broke>>

InitLoop ==
    /\ recipe = FlatRecipe(3, [j \in 1..3 |-> "run"])
    /\ comp = NoComposition
    /\ eng = NoStepRun
    /\ tree = NoTree
    /\ disk = NoSession
    /\ ex = Idle
    /\ cancellation = "none"
    /\ timed_out = FALSE
    /\ runs = 0
    /\ granted = {}
    /\ denied = {}
    /\ broke = FALSE
    /\ \E parallel \in ParallelValues, xs \in ItemLists, on_error \in OnError,
          held \in BOOLEAN :
          loop = LoopRun(parallel, xs, on_error, held)

\* A gather that lists the results as the iterations complete.
as_completed(task, order) == [k \in DOMAIN task |-> task[order[k]].result]

\* 1376-1382: asyncio.gather returns the results in the order of the
\* awaitables it was given, whatever the order they completed in.
gather(task, order) == [k \in DOMAIN task |-> task[k].result]

\* 1371: the semaphore has a free slot.
SemaphoreFree(l) == l.semaphore > 0

\* Iteration k begins the inner step with its loop variable set.
Begun(l, k) == [LoopTask("running") EXCEPT !.item = l.xs[k]]

\* _execute_loop up to the first dispatch.  An empty list sets the collect
\* variable to [] and returns (1177-1188).  The sequential strategy polls
\* and sets the loop variable in the parent context (1229-1236); the
\* parallel strategy polls, creates the semaphore and hands every iteration
\* to asyncio.gather (1305-1331, 1376-1380): without a semaphore each
\* begins its inner step, with one each waits for a slot.
LoopEnter ==
    /\ loop.pc = "start"
    /\ loop' =
         IF loop.xs = << >>
         THEN [loop EXCEPT !.pc = "completed", !.context.collect = << << >> >>]
         ELSE IF loop.requested
         THEN [loop EXCEPT !.pc = "cancelled"]
         ELSE IF Truthy(loop.parallel)
         THEN LET n == MaxConcurrent(loop.parallel)
              IN  [loop EXCEPT !.pc = "running",
                               !.max_concurrent = n,
                               !.semaphore = n,
                               !.task = [k \in DOMAIN @ |->
                                            IF n = 0 THEN Begun(loop, k)
                                            ELSE LoopTask("waiting")]]
         ELSE [loop EXCEPT !.pc = "running",
                           !.context.loop_var = <<loop.xs[1]>>,
                           !.task[1] = Begun(loop, 1)]
    /\ UNCHANGED Around

\* bounded_iteration (1368-1372): iteration k enters `async with
\* semaphore` and begins with its own copy of the context (1336).  The
\* order in which waiters are woken is not relied on.
IterationStarts(k) ==
    /\ loop.task[k].pc = "waiting"
    /\ SemaphoreFree(loop)
    /\ loop' = [loop EXCEPT !.task[k] = Begun(loop, k), !.semaphore = @ - 1]
    /\ UNCHANGED Around

\* How the inner step of iteration k ends: with its result, with a failure
\* that on_error turns into None, an exception or the sentinel (931-939),
\* or with the cancellation raised by a poll of the retry loop (901-905).
Ended(l, k, outcome) ==
    LET o == CASE outcome = "value"     -> "returned"
               [] outcome = "cancelled" -> "cancelled"
               [] OTHER                 -> OnErrorOutcome(l.on_error)
    IN  [l.task[k] EXCEPT !.pc = o,
                          !.result = IF outcome = "value" THEN IterationResult(l.task[k].item)
                                     ELSE 0]

Outcomes(l) == {"value", "error"} \cup (IF l.requested THEN {"cancelled"} ELSE {})

\* _execute_loop_sequential (1238-1277) and the end of _execute_loop
\* (1207-1211): the loop variable is deleted from the parent context in the
\* finally block; a result is appended and the loop goes to its next
\* iteration, after the poll, or stores the list under collect.
SequentialIterationEnds(k) ==
    /\ ~Truthy(loop.parallel)
    /\ loop.task[k].pc = "running"
    /\ \E outcome \in Outcomes(loop) :
          LET t       == Ended(loop, k, outcome)
              cleaned == [loop EXCEPT !.task[k] = t, !.context.loop_var = << >>]
              results == Append(loop.results, t.result)
          IN  loop' =
                CASE t.pc = "raised"    -> [cleaned EXCEPT !.pc = "failed"]
                  [] t.pc = "skip"      -> [cleaned EXCEPT !.pc = "skipped"]
                  [] t.pc = "cancelled" -> [cleaned EXCEPT !.pc = "cancelled"]
                  [] OTHER ->
                       IF k = Len(loop.xs)
                       THEN [cleaned EXCEPT !.results = results,
                                            !.order = Append(@, k),
                                            !.context.collect = <<results>>,
                                            !.pc = "completed"]
                       ELSE IF loop.requested
                       THEN [cleaned EXCEPT !.results = results,
                                            !.order = Append(@, k),
                                            !.pc = "cancelled"]
                       ELSE [cleaned EXCEPT !.results = results,
                                            !.order = Append(@, k),
                                            !.context.loop_var = <<loop.xs[k + 1]>>,
                                            !.task[k + 1] = Begun(loop, k + 1)]
    /\ UNCHANGED Around

\* _execute_loop_parallel (1333-1382): iteration k ends and leaves `async
\* with semaphore`.  The first exception ends the awaiting gather; the
\* other iterations keep running.  When every iteration has returned, the
\* gathered list is stored under collect (1207-1209).
ParallelIterationEnds(k) ==
    /\ Truthy(loop.parallel)
    /\ loop.task[k].pc = "running"
    /\ \E outcome \in Outcomes(loop) :
          LET t    == Ended(loop, k, outcome)
              left == [loop EXCEPT !.task[k] = t,
                                   !.semaphore = IF loop.max_concurrent = 0 THEN @ ELSE @ + 1,
                                   !.order = IF t.pc = "returned" THEN Append(@, k) ELSE @]
          IN  loop' =
                IF loop.pc # "running" THEN left
                ELSE CASE t.pc = "raised"    -> [left EXCEPT !.pc = "failed"]
                       [] t.pc = "skip"      -> [left EXCEPT !.pc = "skipped"]
                       [] t.pc = "cancelled" -> [left EXCEPT !.pc = "cancelled"]
                       [] OTHER ->
                            IF \A j \in DOMAIN left.task : left.task[j].pc = "returned"
                            THEN [left EXCEPT !.pc = "completed",
                                              !.context.collect =
                                                  <<gather(left.task, left.order)>>]
                            ELSE left
    /\ UNCHANGED Around

\* RecipesTool._cancel_recipe while the loop is about to start or runs.
LoopCancel ==
    /\ loop.pc \in {"start", "running"}
    /\ ~loop.requested
    /\ loop' = [loop EXCEPT !.requested = TRUE]
    /\ UNCHANGED Around

NextLoop ==
    \/ LoopEnter
    \/ \E k \in DOMAIN loop.task : IterationStarts(k)
    \/ \E k \in DOMAIN loop.task : SequentialIterationEnds(k)
    \/ \E k \in DOMAIN loop.task : ParallelIterationEnds(k)
    \/ LoopCancel

SpecLoop == InitLoop /\ [][NextLoop]_vars

\* C21 (parallel result order): when a parallel foreach over xs has
\* completed, the list under its collect variable has the length of xs and
\* its k-th element is the result of the iteration that ran with xs[k],
\* whatever the order the iterations completed in.
ParallelResultOrder ==
    (Truthy(loop.parallel) /\ loop.pc = "completed" /\ loop.xs # << >>)
        => /\ loop.context.collect # << >>
           /\ Len(loop.context.collect[1]) = Len(loop.xs)
           /\ \A k \in 1..Len(loop.xs) :
                 /\ loop.task[k].item = loop.xs[k]
                 /\ loop.context.collect[1][k] \in {IterationResult(loop.xs[k]), 0}
                 /\ loop.context.collect[1][k] = loop.task[k].result

\* A parallel loop completed with results, its second iteration having
\* returned before its first.
ParallelResultOrderWitness ==
    /\ Truthy(loop.parallel)
    /\ loop.pc = "completed"
    /\ Len(loop.xs) >= 2
    /\ loop.order[1] = 2
    /\ \A k \in 1..Len(loop.xs) : loop.context.collect[1][k] = IterationResult(loop.xs[k])

\* C22 (bounded parallelism): under `parallel: N` at most N iterations are
\* inside their inner step at any time; under `parallel: true` the loop
\* puts no bound on them: no iteration ever waits for a slot.
BoundedParallelism ==
    LET inner == {k \in DOMAIN loop.task : loop.task[k].pc = "running"}
    IN  /\ (Truthy(loop.parallel) /\ ~loop.parallel.is_bool)
               => Cardinality(inner) <= loop.parallel.value
        /\ IsTrue(loop.parallel)
               => \A k \in DOMAIN loop.task : loop.task[k].pc # "waiting"

\* A loop of more iterations than its bound: one waits while the bound is
\* used up.
BoundedParallelismWitness ==
    /\ ~loop.parallel.is_bool
    /\ Len(loop.xs) > loop.parallel.value
    /\ Cardinality({k \in DOMAIN loop.task : loop.task[k].pc = "running"}) = loop.parallel.value
    /\ \E k \in DOMAIN loop.task : loop.task[k].pc = "waiting"

\* C23 (loop variable scope): after a foreach step has ended, normally, by
\* failure, by skip_remaining or by cancellation, the parent context has no
\* entry under the loop variable's name, also when it held a key of that
\* name before the loop.
LoopVariableScope ==
    loop.pc \in {"completed", "failed", "skipped", "cancelled"}
        => loop.context.loop_var = << >>

\* ------------------------------------------------------------------------
\* Recipe composition under recursion limits and on_error
\* ------------------------------------------------------------------------
\* What a composition leaves alone.
Beside == <<recipe, loop, eng, tree, disk, ex, cancellation, timed_out, runs, granted, denied, broke>>

InitDepth ==
    /\ recipe = FlatRecipe(3, [j \in 1..3 |-> "run"])
    /\ loop = NoLoop
    /\ eng = NoStepRun
    /\ tree = NoTree
    /\ disk = NoSession
    /\ ex = Idle
    /\ cancellation = "none"
    /\ timed_out = FALSE
    /\ runs = 0
    /\ granted = {}
    /\ denied = {}
    /\ broke = FALSE
    /\ \E root \in RecipeNames, max_depth \in 1..MaxDepth,
          max_total_steps \in 0..MaxTotalSteps,
          override \in StepRecursionKeys, on_error \in OnError :
          comp = Composition(root, RecursionConfig(max_depth, max_total_steps),
                             override, on_error)

\* The invocation that is running: the innermost one.
Inner == comp.stack[Len(comp.stack)]

\* The step the running invocation is at.
InnerStep == CompSteps(Inner.name)[Inner.i + 1]

\* The child state _execute_recipe_step makes for the step the running
\* invocation is at (1450).
ChildState ==
    enter_recipe(Inner.recursion_state, InnerStep.recipe,
                 IF Inner.name = "a" THEN StepRecursion(comp.override) ELSE NoOverride)

\* RecipesTool._execute_recipe: execute_recipe without a recursion state
\* (343-352) creates the root state and the session (415).
CompExecute ==
    /\ comp.outcome = "none"
    /\ comp' = [comp EXCEPT !.stack = <<Invocation(comp.root, RootState(comp.root, comp.config))>>,
                            !.created = @ + 1,
                            !.outcome = "running"]
    /\ UNCHANGED Beside

\* The step loop dispatches its next step (447-522).  An agent step is
\* counted (518), which raises at the step limit, and spawned.  A step of type "recipe" calls execute_recipe with the child
\* state (1450-1465), which checks the depth first (353-355): the
\* ValueError goes through every invocation (566-570); otherwise the
\* sub-recipe creates its session (415) and starts its step loop.
CompDispatch ==
    /\ comp.outcome = "running"
    /\ Inner.pc = "loop"
    /\ Inner.i < Len(CompSteps(Inner.name))
    /\ LET depth == Len(comp.stack)
           counted == increment_steps(Inner.recursion_state)
       IN  IF InnerStep.kind = "agent"
           THEN IF check_total_steps(counted)
                THEN comp' = [comp EXCEPT !.stack = << >>, !.outcome = "failed"]
                ELSE comp' = [comp EXCEPT !.stack[depth].pc = "call",
                                          !.stack[depth].recursion_state = counted,
                                          !.dispatched = @ + 1]
           ELSE IF check_depth(ChildState)
           THEN comp' = [comp EXCEPT !.stack = << >>,
                                     !.error = ChildState,
                                     !.outcome = "failed"]
           ELSE comp' = [comp EXCEPT !.stack = Append([@ EXCEPT ![depth].pc = "sub"],
                                                      Invocation(InnerStep.recipe, ChildState)),
                                     !.created = @ + 1]
    /\ UNCHANGED Beside

\* The agent step of the running invocation ends (519-550): with a result,
\* or with a failure of its last attempt that on_error turns into None (the
\* step is checkpointed), an exception (the run fails) or the sentinel
\* (the invocation leaves its step loop).
CompAgentEnds ==
    /\ comp.outcome = "running"
    /\ Inner.pc = "call"
    /\ LET depth == Len(comp.stack)
           next  == [comp EXCEPT !.stack[depth].i = @ + 1, !.stack[depth].pc = "loop"]
       IN  \E ok \in BOOLEAN :
              comp' = CASE ok \/ OnErrorOutcome(comp.on_error) = "returned" -> next
                        [] OnErrorOutcome(comp.on_error) = "raised" ->
                             [comp EXCEPT !.stack = << >>, !.outcome = "failed"]
                        [] OTHER ->
                             [comp EXCEPT !.stack[depth].pc = "broke",
                                          !.sentinel = depth]
    /\ UNCHANGED Beside

\* The running invocation returns its context (572-578), its step loop
\* exhausted or left by `break`: the root completes, a sub-recipe returns
\* into the recipe step of its caller, which takes over the child's
\* total_steps (1465-1470) and is checkpointed (524-546).
CompReturn ==
    /\ comp.outcome = "running"
    /\ \/ Inner.pc = "broke"
       \/ Inner.pc = "loop" /\ Inner.i >= Len(CompSteps(Inner.name))
    /\ LET depth == Len(comp.stack)
       IN  IF depth = 1
           THEN comp' = [comp EXCEPT !.stack = << >>, !.outcome = "completed"]
           ELSE comp' = [comp EXCEPT !.stack = [SubSeq(@, 1, depth - 1) EXCEPT
                                                   ![depth - 1].recursion_state.total_steps =
                                                       Inner.recursion_state.total_steps,
                                                   ![depth - 1].i = @ + 1,
                                                   ![depth - 1].pc = "loop"]]
    /\ UNCHANGED Beside

NextDepth ==
    \/ CompExecute
    \/ CompDispatch
    \/ CompAgentEnds
    \/ CompReturn

SpecDepth == InitDepth /\ [][NextDepth]_vars

\* C28 (skip-remaining propagates out of sub-recipes): once the sentinel
\* has been raised inside a sub-recipe, no invocation of the run dispatches
\* an agent step or enters a sub-recipe any more.
SkipRemainingPropagates ==
    [][comp.sentinel > 1
          => /\ comp'.dispatched = comp.dispatched
             /\ Len(comp'.stack) <= Len(comp.stack)]_vars

\* C30 (depth limit): when a step of type "recipe" is dispatched, the
\* sub-recipe at depth d runs if d is below the max_depth D in force, and
\* otherwise the run fails with the depth error that carries d, D and the
\* recipe stack ending in the recipe entered, no session having been
\* created and no step dispatched.
DepthLimit ==
    [][(/\ comp.outcome = "running"
        /\ Inner.pc = "loop"
        /\ Inner.i < Len(CompSteps(Inner.name))
        /\ InnerStep.kind = "recipe"
        /\ comp' # comp)
          => IF ChildState.current_depth < ChildState.max_depth
             THEN /\ comp'.outcome = "running"
                  /\ Len(comp'.stack) = Len(comp.stack) + 1
                  /\ comp'.stack[Len(comp'.stack)].recursion_state = ChildState
                  /\ comp'.stack[Len(comp'.stack)].i = 0
             ELSE /\ comp'.outcome = "failed"
                  /\ comp'.error.current_depth = Len(comp.stack)
                  /\ comp'.error.max_depth = ChildState.max_depth
                  /\ comp'.error.recipe_stack =
                         Append([k \in 1..Len(comp.stack) |-> comp.stack[k].name],
                                InnerStep.recipe)
                  /\ comp'.created = comp.created
                  /\ comp'.dispatched = comp.dispatched]_vars

\* The cycle a, b, a under max_depth 2 failed at the second entry of a,
\* after a had run at depth 0 and b at depth 1.
DepthLimitWitness ==
    /\ comp.outcome = "failed"
    /\ comp.root = "a"
    /\ comp.config.max_depth = 2
    /\ comp.error.current_depth = 2
    /\ comp.error.max_depth = 2
    /\ comp.error.recipe_stack = <<"a", "b", "a">>
    /\ comp.created = 2
    /\ comp.dispatched = 2

\* C39 (per-step recursion override is field-wise): when a sub-recipe is
\* entered, its state has the caller's depth plus one and the caller's
\* total_steps, and each limit is the one the step's `recursion` mapping
\* gives, or the caller's when the mapping is absent or does not give it.
FieldwiseOverride ==
    [][(/\ comp.outcome = "running"
        /\ Inner.pc = "loop"
        /\ Inner.i < Len(CompSteps(Inner.name))
        /\ InnerStep.kind = "recipe"
        /\ Len(comp'.stack) = Len(comp.stack) + 1)
          => LET parent == Inner.recursion_state
                 child  == comp'.stack[Len(comp'.stack)].recursion_state
                 keys   == IF Inner.name = "a" THEN comp.override ELSE NoKeys
             IN  /\ child.current_depth = parent.current_depth + 1
                 /\ child.total_steps = parent.total_steps
                 /\ child.max_depth = IF keys.max_depth # 0 THEN keys.max_depth
                                      ELSE parent.max_depth
                 /\ child.max_total_steps = IF keys.max_total_steps # 0
                                            THEN keys.max_total_steps
                                            ELSE parent.max_total_steps]_vars

\* ------------------------------------------------------------------------
\* The cumulative step count of a foreach step (executor.py: RecursionState,
\* _execute_loop_sequential, _execute_loop_parallel, _execute_recipe_step)
\* ------------------------------------------------------------------------
\* n agent steps counted one after another (1254, 102-105): TRUE when no
\* increment_steps raises.
RECURSIVE SequentialAdmits(_, _)
SequentialAdmits(state, n) ==
    IF n = 0 THEN TRUE
    ELSE /\ ~check_total_steps(increment_steps(state))
         /\ SequentialAdmits(increment_steps(state), n - 1)

\* The pre-reservation check of a parallel loop of n agent iterations
\* (1311-1316): TRUE when it does not raise.
ParallelAdmits(state, n) == ~(state.total_steps + n > state.max_total_steps)

\* One iteration of the loop.
\*   pc               "pending", "running" (inside the agent step or the
\*                    sub-recipe), "returned"
\*   recursion_state  child_state of a sub-recipe (1450)
\*   left             agent steps the sub-recipe has still to run
Iteration(pc) == [pc |-> pc, recursion_state |-> NoError, left |-> 0]

\* A foreach step of n iterations under its caller's recursion state.
\*   type             "agent": each iteration is an agent step; "recipe":
\*                    each iteration runs a sub-recipe of `steps` agent steps
\*   parallel         the loop is parallel, without a bound
\*   initial          total_steps when the loop was entered
\*   recursion_state  the caller's state, shared by the iterations
\*   counted          history: total_steps on entry plus the agent steps
\*                    counted since by anyone in the tree
\*   pc               "start", "running", "completed", or "rejected" when a
\*                    step limit check raised
CountRun(type, parallel, n, steps, total_steps, max_total_steps) ==
    [type            |-> type,
     parallel        |-> parallel,
     steps           |-> steps,
     initial         |-> total_steps,
     recursion_state |-> RecursionState(0, total_steps, DefaultMaxDepth,
                                        max_total_steps, <<"a">>),
     iteration       |-> [k \in 1..n |-> Iteration("pending")],
     counted         |-> total_steps,
     pc              |-> "start"]

InitCount ==
    /\ recipe = FlatRecipe(3, [j \in 1..3 |-> "run"])
    /\ comp = NoComposition
    /\ eng = NoStepRun
    /\ tree = NoTree
    /\ disk = NoSession
    /\ ex = Idle
    /\ cancellation = "none"
    /\ timed_out = FALSE
    /\ runs = 0
    /\ granted = {}
    /\ denied = {}
    /\ broke = FALSE
    /\ \E type \in {"agent", "recipe"}, parallel \in BOOLEAN, n \in 1..MaxItems,
          steps \in 1..MaxItems, total_steps \in 0..MaxTotalSteps,
          max_total_steps \in 1..MaxTotalSteps \cup {DefaultMaxTotalSteps} :
          /\ total_steps < max_total_steps
          /\ type = "agent" => steps = 1
          /\ loop = CountRun(type, parallel, n, steps, total_steps, max_total_steps)

\* Iteration k of a loop over a recipe step begins: _execute_recipe_step
\* makes the child state from the caller's state as it is now (1450).
Entering(l, k) ==
    [Iteration("running") EXCEPT
        !.recursion_state = enter_recipe(l.recursion_state, "c", NoOverride),
        !.left = l.steps]

\* The loop after iteration k has returned: complete when all have, and a
\* sequential loop begins its next iteration.
AfterReturn(l, k) ==
    IF \A j \in DOMAIN l.iteration : l.iteration[j].pc = "returned"
    THEN [l EXCEPT !.pc = "completed"]
    ELSE IF l.parallel THEN l
    ELSE IF l.type = "recipe"
    THEN [l EXCEPT !.iteration[k + 1] = Entering(l, k + 1)]
    ELSE [l EXCEPT !.iteration[k + 1].pc = "counting"]

\* The loop is entered.  A parallel loop of agent steps checks and reserves
\* the steps of all its iterations at once (1310-1318) and starts them; a
\* parallel loop of recipe steps starts every iteration (1376-1380); a
\* sequential loop begins its first iteration (1229-1258).
CountEnter ==
    /\ loop.pc = "start"
    /\ loop' =
         IF loop.parallel /\ loop.type = "agent"
         THEN LET n == Len(loop.iteration)
              IN  IF ~ParallelAdmits(loop.recursion_state, n)
                  THEN [loop EXCEPT !.pc = "rejected"]
                  ELSE [loop EXCEPT !.pc = "running",
                                    !.recursion_state.total_steps = @ + n,
                                    !.counted = @ + n,
                                    !.iteration = [k \in DOMAIN @ |-> Iteration("running")]]
         ELSE IF loop.parallel
         THEN [loop EXCEPT !.pc = "running",
                           !.iteration = [k \in DOMAIN @ |-> Entering(loop, k)]]
         ELSE IF loop.type = "recipe"
         THEN [loop EXCEPT !.pc = "running", !.iteration[1] = Entering(loop, 1)]
         ELSE [loop EXCEPT !.pc = "running", !.iteration[1].pc = "counting"]
    /\ UNCHANGED Around

\* An agent iteration of a sequential loop is counted before it is spawned
\* (1253-1258): increment_steps raises at the limit.
AgentCounted(k) ==
    /\ loop.pc = "running"
    /\ loop.iteration[k].pc = "counting"
    /\ LET counted == increment_steps(loop.recursion_state)
       IN  loop' = IF check_total_steps(counted)
                   THEN [loop EXCEPT !.pc = "rejected",
                                     !.recursion_state = counted]
                   ELSE [loop EXCEPT !.recursion_state = counted,
                                     !.counted = @ + 1,
                                     !.iteration[k].pc = "running"]
    /\ UNCHANGED Around

\* The agent step of iteration k returns.
AgentReturns(k) ==
    /\ loop.pc = "running"
    /\ loop.type = "agent"
    /\ loop.iteration[k].pc = "running"
    /\ loop' = AfterReturn([loop EXCEPT !.iteration[k].pc = "returned"], k)
    /\ UNCHANGED Around

\* The sub-recipe of iteration k runs its next agent step (518): it counts
\* the step in its own state.
SubRecipeStep(k) ==
    /\ loop.pc = "running"
    /\ loop.type = "recipe"
    /\ loop.iteration[k].pc = "running"
    /\ loop.iteration[k].left > 0
    /\ LET counted == increment_steps(loop.iteration[k].recursion_state)
       IN  loop' = IF check_total_steps(counted)
                   THEN [loop EXCEPT !.pc = "rejected",
                                     !.iteration[k].recursion_state = counted]
                   ELSE [loop EXCEPT !.iteration[k].recursion_state = counted,
                                     !.iteration[k].left = @ - 1,
                                     !.counted = @ + 1]
    /\ UNCHANGED Around

\* The sub-recipe of iteration k returns: the caller's total_steps is set
\* to the child's (1467-1468).
SubRecipeReturns(k) ==
    /\ loop.pc = "running"
    /\ loop.type = "recipe"
    /\ loop.iteration[k].pc = "running"
    /\ loop.iteration[k].left = 0
    /\ loop' = AfterReturn([loop EXCEPT
                               !.iteration[k].pc = "returned",
                               !.recursion_state.total_steps =
                                   loop.iteration[k].recursion_state.total_steps],
                           k)
    /\ UNCHANGED Around

NextCount ==
    \/ CountEnter
    \/ \E k \in DOMAIN loop.iteration : AgentCounted(k)
    \/ \E k \in DOMAIN loop.iteration : AgentReturns(k)
    \/ \E k \in DOMAIN loop.iteration : SubRecipeStep(k)
    \/ \E k \in DOMAIN loop.iteration : SubRecipeReturns(k)

SpecCount == InitCount /\ [][NextCount]_vars

\* C31 (the cumulative step count is global): whenever no sub-recipe of the
\* loop is running, and so after every return of a sequential loop and
\* after the last return of a parallel one, the caller's total_steps is
\* the number of agent steps counted so far in the whole tree; it never
\* falls below the count on entry of the loop.
GlobalStepCount ==
    (/\ loop.type = "recipe"
     /\ loop.pc \in {"running", "completed"}
     /\ \A k \in DOMAIN loop.iteration : loop.iteration[k].pc # "running")
        => loop.recursion_state.total_steps = loop.counted

\* C37 (the step limit is the same on both paths): a loop of n agent
\* iterations is admitted on the path it takes exactly when n agent steps
\* from the same count under the same limit are admitted on the other
\* path.
StepLimitSamePaths ==
    (loop.type = "agent" /\ loop.pc \in {"completed", "rejected"})
        => LET before == [loop.recursion_state EXCEPT !.total_steps = loop.initial]
               n      == Len(loop.iteration)
           IN  (loop.pc = "completed") <=>
                   IF loop.parallel THEN SequentialAdmits(before, n)
                   ELSE ParallelAdmits(before, n)

\* The ids of the steps of the recipe whose condition evaluates to false.
GuardedIds == {s.id : s \in {t \in Range(get_all_steps(recipe)) : t.kind = "guarded"}}

\* C33 (guard condition): a step whose condition is false is never
\* dispatched, never has its output variable written and is never in
\* completed_steps; when the step loop reaches it and the run goes on, the
\* loop moves to the next step of the same list with the step's id
\* appended to the skipped list and nothing else changed.
GuardedStepSkipped ==
    [][/\ \A id \in GuardedIds :
             /\ id \notin Range(ex'.dispatched)
             /\ id \notin ex'.context.outputs
             /\ id \notin Range(ex'.completed_steps)
       /\ (AtStep /\ CurStep.kind = "guarded" /\ ex' # ex /\ ex'.pc = "loop")
             => /\ ex'.step_idx = ex.step_idx + 1
                /\ ex'.stage_idx = ex.stage_idx
                /\ ex'.context.skipped_steps = Append(ex.context.skipped_steps, CurStep.id)
                /\ ex'.context.outputs = ex.context.outputs
                /\ ex'.completed_steps = ex.completed_steps
                /\ ex'.dispatched = ex.dispatched]_vars

\* A step after a guarded one has been dispatched in the invocation that
\* skipped the guarded one.
GuardedStepSkippedWitness ==
    /\ ex.pc = "step"
    /\ \E id \in GuardedIds :
          /\ id \in Range(ex.context.skipped_steps)
          /\ id \notin Range(ex.dispatched)
          /\ id + 1 \in Range(ex.dispatched)
          /\ ex.dispatched # << >>
          /\ CurStep.id = id + 1
          /\ ~ex.is_resuming

\* C36 (skip-remaining in a staged recipe ends the whole recipe): in the
\* first invocation of a staged recipe, once a step has triggered
\* skip_remaining no further step is dispatched, neither in its stage nor
\* in a later one.
SkipRemainingEndsStaged ==
    [][(is_staged(recipe) /\ broke /\ runs = 1 /\ runs' = 1)
          => Len(ex'.dispatched) <= Len(ex.dispatched)]_vars

\* C38 (no orphaned iterations): once a parallel foreach has failed and
\* the handler of execute_recipe has saved and re-raised, no iteration of
\* the step is waiting for a slot, inside execute_step or asleep before a
\* retry, and every slot of the rate limiter is free.
NoOrphanedIterations ==
    (eng.shape = "parallel" /\ eng.pc = "failed")
        => /\ InFlight(eng) = {}
           /\ eng.rate_limiter # NoLimiter
                 => eng.rate_limiter.semaphore = eng.rate_limiter.max_concurrent

\* ------------------------------------------------------------------------
\* The context of a sub-recipe (executor.py: _execute_recipe_step,
\* substitute_variables, execute_recipe)
\* ------------------------------------------------------------------------
\* A context value: the number or the string written `text`.
Value(type, text) == [type |-> type, text |-> text]

Values == {Value("int", "1"), Value("str", "1"), Value("str", "2")}

\* str(value) (1573-1575, 1587-1590).
str(value) == Value("str", value.text)

\* The variables of the caller, and the keys a step's `context` map may
\* give; "x" is both.
ParentKeys == {"x", "y"}

SubKeys == {"p", "x"}

\* A value of a step's `context` map: a literal, or the string "{{var}}".
Literal(value) == [kind |-> "literal", value |-> value, var |-> ""]

Reference(var) == [kind |-> "reference", value |-> Value("str", ""), var |-> var]

Templates == {Literal(Value("int", "1")), Literal(Value("str", "1"))}
                 \cup {Reference(var) : var \in ParentKeys}

\* What stands for the ValueError of an undefined variable (1583-1585).
Undefined == Value("error", "")

\* substitute_variables on the string "{{var}}" (1528-1590).
substitute_variables(template, context) ==
    IF template.var \in DOMAIN context THEN str(context[template.var]) ELSE Undefined

\* _substitute_variables_recursive (1501-1526): strings are substituted,
\* numbers pass through.
substitute_variables_recursive(template, context) ==
    IF template.kind = "reference" THEN substitute_variables(template, context)
    ELSE template.value

\* {**base, **over}
Merge(base, over) ==
    [k \in DOMAIN base \cup DOMAIN over |-> IF k \in DOMAIN over THEN over[k] ELSE base[k]]

\* A sub-context that starts from the caller's whole context.
InheritedContext(step_context, context) ==
    Merge(context, [k \in DOMAIN step_context |->
                       substitute_variables_recursive(step_context[k], context)])

\* sub_context of _execute_recipe_step (1441-1447).
SubContext(step_context, context) ==
    [k \in DOMAIN step_context |-> substitute_variables_recursive(step_context[k], context)]

\* context["recipe"], the metadata of the recipe that runs (383-387).
Metadata(name) == [k \in {"recipe"} |-> Value("str", name)]

\* The context an invocation of execute_recipe starts with (380-393, 417).
InitialContext(recipe_context, context_vars, name) ==
    Merge(Merge(recipe_context, context_vars), Metadata(name))

\* The declared context of the sub-recipe.
SubRecipeContext == [k \in {"p"} |-> Value("str", "2")]

NoContext == [k \in {} |-> Undefined]

\* One execution of the recipe step `context: step_context, output: sub`
\* in a caller whose context is `context`.
\*   pc       "loop" before the step, "sub" in the sub-recipe before its
\*            agent step, "returning" after it, "returned", "raised"
\*   before   history: the caller's context before the step
\*   child    the context of the sub-recipe
Caller(context) ==
    [pc |-> "loop", before |-> context, context |-> context, child |-> NoContext,
     result |-> NoContext]

\* Two callers that run the same step.  The sub-recipe has one agent
\* step, `prompt: "{{prompt}}", output: out`.
Isolation(step_context, prompt, first, second) ==
    [step_context |-> step_context, prompt |-> prompt,
     run |-> <<Caller(first), Caller(second)>>]

ParentContexts ==
    UNION {[keys -> Values] : keys \in {{"x"}, {"x", "y"}}}

StepContexts == UNION {[keys -> Templates] : keys \in SUBSET SubKeys}

InitContext ==
    /\ recipe = FlatRecipe(3, [j \in 1..3 |-> "run"])
    /\ loop = NoLoop
    /\ comp = NoComposition
    /\ eng = NoStepRun
    /\ disk = NoSession
    /\ ex = Idle
    /\ cancellation = "none"
    /\ timed_out = FALSE
    /\ runs = 0
    /\ granted = {}
    /\ denied = {}
    /\ broke = FALSE
    /\ \E step_context \in StepContexts, prompt \in ParentKeys \cup SubKeys,
          first \in ParentContexts, second \in ParentContexts :
          tree = Isolation(step_context, prompt,
                           Merge(first, Metadata("a")), Merge(second, Metadata("a")))

\* _execute_recipe_step up to the call of execute_recipe (1441-1465,
\* 380-393): the sub-context is built and the sub-recipe starts on it.
RecipeStepEnters(r) ==
    /\ tree.run[r].pc = "loop"
    /\ LET sub_context == SubContext(tree.step_context, tree.run[r].context)
       IN  tree' = IF \E k \in DOMAIN sub_context : sub_context[k] = Undefined
                   THEN [tree EXCEPT !.run[r].pc = "raised"]
                   ELSE [tree EXCEPT !.run[r].pc = "sub",
                                     !.run[r].child =
                                         InitialContext(SubRecipeContext, sub_context, "c")]
    /\ UNCHANGED <<cancellation, Outside>>

\* The agent step of the sub-recipe (516-528): the prompt is resolved in
\* the sub-recipe's context and the agent's answer, which is determined by
\* the prompt, is stored in `out`.
SubRecipeAgentStep(r) ==
    /\ tree.run[r].pc = "sub"
    /\ LET child  == tree.run[r].child
           answer == substitute_variables(Reference(tree.prompt), child)
       IN  tree' = IF answer = Undefined
                   THEN [tree EXCEPT !.run[r].pc = "raised", !.run[r].child = NoContext]
                   ELSE [tree EXCEPT !.run[r].pc = "returning",
                                     !.run[r].child = Merge(child, [k \in {"out"} |-> answer])]
    /\ UNCHANGED <<cancellation, Outside>>

\* The sub-recipe returns its context (578, 1470) and the caller stores it
\* in the step's output variable (527-528).
RecipeStepReturns(r) ==
    /\ tree.run[r].pc = "returning"
    /\ tree' = [tree EXCEPT !.run[r].pc = "returned",
                            !.run[r].result = tree.run[r].child,
                            !.run[r].context =
                                Merge(@, [k \in {"sub"} |-> tree.run[r].child])]
    /\ UNCHANGED <<cancellation, Outside>>

NextContext ==
    \/ \E r \in 1..2 : RecipeStepEnters(r)
    \/ \E r \in 1..2 : SubRecipeAgentStep(r)
    \/ \E r \in 1..2 : RecipeStepReturns(r)

SpecContext == InitContext /\ [][NextContext]_vars

\* The caller's variables the step's `context` map refers to.
Referenced(step_context) ==
    {step_context[k].var : k \in {j \in DOMAIN step_context : step_context[j].kind = "reference"}}

\* Two contexts agree on a variable: both lack it or both give it the same value.
Agree(first, second, var) ==
    /\ var \in DOMAIN first <=> var \in DOMAIN second
    /\ var \in DOMAIN first => first[var] = second[var]

MinInitialDelay == 100

\* The largest max_delay_ms and reset_after_success of the configurations.
MaxDelayCap == 400

MaxReset == 2

\* multiplier, in tenths: 1.0, 1.5, 2.0.
Multipliers == {10, 15, 20}

\* The configurations that pass BackoffConfig.validate (38-53).
BackoffConfigs ==
    {c \in [enabled             : BOOLEAN,
            initial_delay_ms    : {MinInitialDelay, MinInitialDelay + 1},
            max_delay_ms        : {MinInitialDelay, MinInitialDelay + 1, MaxDelayCap},
            multiplier          : Multipliers,
            reset_after_success : 1..MaxReset] :
        /\ c.initial_delay_ms >= MinInitialDelay
        /\ c.max_delay_ms >= c.initial_delay_ms
        /\ c.multiplier >= 10
        /\ c.reset_after_success >= 1}

\* BackoffState(config); `last` is history: the call made last.
BackoffState(config) ==
    [config |-> config, current_delay_ms |-> 0, consecutive_successes |-> 0,
     last |-> "none"]

Min(a, b) == IF a <= b THEN a ELSE b

\* An increase without the cap of max_delay_ms.
IncreaseUncapped(b) ==
    IF ~b.config.enabled THEN b
    ELSE [b EXCEPT !.current_delay_ms = IF @ = 0 THEN b.config.initial_delay_ms
                                        ELSE (@ * b.config.multiplier) \div 10,
                   !.consecutive_successes = 0]

\* BackoffState.increase (136-147); int() truncates the product.
increase(b) ==
    IF ~b.config.enabled THEN b
    ELSE [b EXCEPT !.current_delay_ms =
                       IF @ = 0 THEN b.config.initial_delay_ms
                       ELSE Min((@ * b.config.multiplier) \div 10, b.config.max_delay_ms),
                   !.consecutive_successes = 0]

\* BackoffState.record_success (149-156).
record_success(b) ==
    IF ~b.config.enabled THEN b
    ELSE IF b.consecutive_successes + 1 >= b.config.reset_after_success
         THEN [b EXCEPT !.current_delay_ms = 0, !.consecutive_successes = 0]
         ELSE [b EXCEPT !.consecutive_successes = @ + 1]

InitBackoff ==
    /\ recipe = FlatRecipe(3, [j \in 1..3 |-> "run"])
    /\ loop = NoLoop
    /\ comp = NoComposition
    /\ tree = NoTree
    /\ disk = NoSession
    /\ ex = Idle
    /\ cancellation = "none"
    /\ timed_out = FALSE
    /\ runs = 0
    /\ granted = {}
    /\ denied = {}
    /\ broke = FALSE
    /\ \E config \in BackoffConfigs : eng = BackoffState(config)

\* RateLimiter.record_rate_limit (197-200): a call failed with a 429.
RateLimitHit ==
    /\ eng' = [increase(eng) EXCEPT !.last = "hit"]
    /\ UNCHANGED <<disk, runs, tree, Executor>>

\* RateLimiter.record_success (202-204): a call returned.
CallSucceeds ==
    /\ eng' = [record_success(eng) EXCEPT !.last = "success"]
    /\ UNCHANGED <<disk, runs, tree, Executor>>

NextBackoff ==
    \/ RateLimitHit
    \/ CallSucceeds

SpecBackoff == InitBackoff /\ [][NextBackoff]_vars

\* The bounds of C34 on a back-off state.
BackoffBounds(b) ==
    /\ 0 <= b.current_delay_ms /\ b.current_delay_ms <= b.config.max_delay_ms
    /\ 0 <= b.consecutive_successes
    /\ b.consecutive_successes < b.config.reset_after_success

\* What a success does under C34.
SuccessStep(b, c) ==
    IF b.consecutive_successes + 1 = b.config.reset_after_success
    THEN c.current_delay_ms = 0 /\ c.consecutive_successes = 0
    ELSE /\ c.current_delay_ms = b.current_delay_ms
         /\ c.consecutive_successes = b.consecutive_successes + 1

\* C34 as stated (adaptive back-off): with back-off enabled a hit sets the
\* delay to initial_delay_ms when it is 0 and otherwise to exactly
\* min(current_delay_ms * multiplier, max_delay_ms), and clears the
\* counter; a success increments the counter and clears delay and counter
\* when it reaches reset_after_success; the bounds hold.
BackoffMachine ==
    [][eng.config.enabled =>
          /\ eng'.last = "hit" =>
                /\ IF eng.current_delay_ms = 0
                   THEN eng'.current_delay_ms = eng.config.initial_delay_ms
                   ELSE 10 * eng'.current_delay_ms
                            = Min(eng.current_delay_ms * eng.config.multiplier,
                                  10 * eng.config.max_delay_ms)
                /\ eng'.consecutive_successes = 0
          /\ eng'.last = "success" => SuccessStep(eng, eng')
          /\ BackoffBounds(eng')]_vars

\* C34 amended (adaptive back-off): as stated, except that the product
\* current_delay_ms * multiplier is truncated to whole milliseconds before
\* the minimum with max_delay_ms is taken.
BackoffMachineTruncated ==
    [][eng.config.enabled =>
          /\ eng'.last = "hit" =>
                /\ IF eng.current_delay_ms = 0
                   THEN eng'.current_delay_ms = eng.config.initial_delay_ms
                   ELSE eng'.current_delay_ms
                            = Min((eng.current_delay_ms * eng.config.multiplier) \div 10,
                                  eng.config.max_delay_ms)
                /\ eng'.consecutive_successes = 0
          /\ eng'.last = "success" => SuccessStep(eng, eng')
          /\ BackoffBounds(eng')]_vars

\* After a success that did not reset, a second hit has multiplied 101 ms
\* by 1.5 to 151 ms.
BackoffMachineWitness ==
    /\ eng.config.enabled
    /\ eng.config.initial_delay_ms = MinInitialDelay + 1
    /\ eng.config.multiplier = 15
    /\ eng.config.reset_after_success = 2
    /\ eng.last = "hit"
    /\ eng.current_delay_ms = ((MinInitialDelay + 1) * 15) \div 10
    /\ eng.consecutive_successes = 0

\* ------------------------------------------------------------------------
\* Pacing (executor.py: RateLimiter.acquire, release, _apply_pacing)
\* ------------------------------------------------------------------------
\* min_delay_ms is 1..MaxDelay, in units of the clock; the clock runs from
\* MaxDelay, so that the first call is not delayed, to MaxTime.
MaxDelay == 2

MaxTime == 5

\* A coroutine that calls through the limiter.
\*   pc     "idle", "lock" (has a slot, waits for the pacing lock), "sleep"
\*          (sleeps in _apply_pacing, holding the lock), "call" (inside
\*          execute_step)
\*   wake   when its sleep ends
\*   calls  calls completed
\*   gap    history: at the start of its last call, the time since the
\*          most recent release
Acquirer ==
    [pc |-> "idle", wake |-> 0, calls |-> 0, gap |-> MaxDelay]

\* The rate limiter (166-172) with its acquirers; the back-off delay is 0.
\*   semaphore        free slots
\*   now              the clock, loop.time()
\*   last_completion  _last_completion
\*   lock             the holder of _lock, 0 when it is free
Pacing(max_concurrent_llm, min_delay_ms) ==
    [semaphore       |-> max_concurrent_llm,
     max_concurrent  |-> max_concurrent_llm,
     min_delay_ms    |-> min_delay_ms,
     now             |-> MaxDelay,
     last_completion |-> 0,
     lock            |-> 0,
     task            |-> [t \in 1..MaxItems |-> Acquirer]]

InitPacing ==
    /\ recipe = FlatRecipe(3, [j \in 1..3 |-> "run"])
    /\ loop = NoLoop
    /\ comp = NoComposition
    /\ tree = NoTree
    /\ disk = NoSession
    /\ ex = Idle
    /\ cancellation = "none"
    /\ timed_out = FALSE
    /\ runs = 0
    /\ granted = {}
    /\ denied = {}
    /\ broke = FALSE
    /\ \E max_concurrent_llm \in 1..MaxSlots, min_delay_ms \in 1..MaxDelay :
          eng = Pacing(max_concurrent_llm, min_delay_ms)

\* _apply_pacing once the lock is taken (209-213), p being the limiter
\* with the slot of t taken: t sleeps the remainder under the lock, or
\* leaves at once and its call starts.
Paced(p, t) ==
    LET elapsed_ms == p.now - p.last_completion
    IN  IF elapsed_ms < p.min_delay_ms
        THEN [p EXCEPT !.lock = t,
                       !.task[t].pc = "sleep",
                       !.task[t].wake = p.now + (p.min_delay_ms - elapsed_ms)]
        ELSE [p EXCEPT !.task[t].pc = "call",
                       !.task[t].gap = elapsed_ms]

\* RateLimiter.acquire (182-190): a slot of the semaphore, then the pacing
\* lock; neither yields when it is free.
PacingAcquire(t) ==
    /\ eng.task[t].pc = "idle"
    /\ eng.task[t].calls < MaxAttempts
    /\ eng.semaphore > 0
    /\ LET taken == [eng EXCEPT !.semaphore = @ - 1]
       IN  eng' = IF eng.lock = 0 THEN Paced(taken, t)
                  ELSE [taken EXCEPT !.task[t].pc = "lock"]
    /\ UNCHANGED <<disk, runs, tree, Executor>>

\* The lock is free for a waiting acquirer (209).
PacingLock(t) ==
    /\ eng.task[t].pc = "lock"
    /\ eng.lock = 0
    /\ eng' = Paced(eng, t)
    /\ UNCHANGED <<disk, runs, tree, Executor>>

\* The sleep of _apply_pacing ends (213): the lock is released and the
\* call starts.
PacingWake(t) ==
    /\ eng.task[t].pc = "sleep"
    /\ eng.now >= eng.task[t].wake
    /\ eng' = [eng EXCEPT !.lock = 0,
                          !.task[t].pc = "call",
                          !.task[t].gap = eng.now - eng.last_completion]
    /\ UNCHANGED <<disk, runs, tree, Executor>>

\* RateLimiter.release (192-195) when the call has ended.
PacingRelease(t) ==
    /\ eng.task[t].pc = "call"
    /\ eng' = [eng EXCEPT !.last_completion = eng.now,
                          !.semaphore = @ + 1,
                          !.task[t].pc = "idle",
                          !.task[t].calls = @ + 1]
    /\ UNCHANGED <<disk, runs, tree, Executor>>

\* Time passes, not beyond the end of a sleep.
PacingTick ==
    /\ eng.now < MaxTime
    /\ \A t \in 1..MaxItems : eng.task[t].pc = "sleep" => eng.now < eng.task[t].wake
    /\ eng' = [eng EXCEPT !.now = @ + 1]
    /\ UNCHANGED <<disk, runs, tree, Executor>>

NextPacing ==
    \/ \E t \in 1..MaxItems : PacingAcquire(t)
    \/ \E t \in 1..MaxItems : PacingLock(t)
    \/ \E t \in 1..MaxItems : PacingWake(t)
    \/ \E t \in 1..MaxItems : PacingRelease(t)
    \/ PacingTick

SpecPacing == InitPacing /\ [][NextPacing]_vars

\* C35 (pacing): under min_delay_ms = M > 0 every call admitted by the
\* limiter starts at least M after the most recent release through the
\* limiter, also when that release happened while the acquirer slept in
\* the pacing step.
PacingGap ==
    \A t \in 1..MaxItems :
        eng.task[t].pc = "call" => eng.task[t].gap >= eng.min_delay_ms

\* ------------------------------------------------------------------------
\* Nested parallel loops under one rate limiter (executor.py:
\* _execute_loop_parallel, _execute_recipe_step, RateLimiter.acquire,
\* RecursionState.check_depth)
\* ------------------------------------------------------------------------
\* The items of every foreach of the tree.
NestItems == {1, 2}

Leaves == NestItems \X NestItems

\* The pacing lock released, and a lock that is kept.
KeepLock(lock) == lock

Unlock(lock) == << >>

\* An iteration of a sub-recipe's loop: where it is, and the attempt
\* of execute_step_with_retry it is in (901).
Leaf(pc) == [pc |-> pc, attempt |-> 0]

\* The root recipe has one step, a parallel foreach over NestItems of type
\* recipe; every loop of the tree has the bound `parallel` (0: None) and
\* its own semaphore (1331).
\*   kind          "nested": the sub-recipe's step is a parallel foreach of
\*                 agent steps; "cyclic": the sub-recipe is the root
\*                 recipe again, under max_depth 2
\*   paced         min_delay_ms > 0
\*   rate_limiter  the limiter of the root, handed down (357-361, 1463)
\*   lock          the holder of the limiter's _lock, <<>> when free
\*   pc            "start", "running", "completed", "failed"
\*   iteration     the iterations of the root's loop: "waiting" for the
\*                 loop's semaphore, "running" the sub-recipe, "returned",
\*                 "raised"
\*   leaf          the iterations of the sub-recipes' loops: "none",
\*                 "waiting" for the loop's semaphore, "acquire" (waits for
\*                 a slot), "lock" (has a slot, waits for the pacing lock),
\*                 "sleep" (in _apply_pacing under the lock), "call",
\*                 "retry" (sleeps before the next attempt), "returned",
\*                 "raised"
\*   max_attempts  retry.max_attempts of the agent step
Nest(kind, parallel, max_concurrent_llm, paced, max_attempts) ==
    [kind         |-> kind,
     parallel     |-> parallel,
     paced        |-> paced,
     max_attempts |-> max_attempts,
     rate_limiter |-> RateLimiter(max_concurrent_llm),
     lock         |-> << >>,
     pc           |-> "start",
     iteration    |-> [i \in NestItems |-> "none"],
     leaf         |-> [l \in Leaves |-> Leaf("none")]]

InitNest ==
    /\ recipe = FlatRecipe(3, [j \in 1..3 |-> "run"])
    /\ loop = NoLoop
    /\ eng = NoStepRun
    /\ tree = NoTree
    /\ disk = NoSession
    /\ ex = Idle
    /\ cancellation = "none"
    /\ timed_out = FALSE
    /\ runs = 0
    /\ granted = {}
    /\ denied = {}
    /\ broke = FALSE
    /\ \E kind \in {"nested", "cyclic"}, parallel \in 0..MaxParallel,
          max_concurrent_llm \in 1..MaxSlots, paced \in BOOLEAN,
          max_attempts \in 1..MaxAttempts :
          /\ kind = "cyclic" => max_attempts = 1 /\ ~paced /\ max_concurrent_llm = 1
          /\ max_attempts > 1 => max_concurrent_llm = 1
          /\ comp = Nest(kind, parallel, max_concurrent_llm, paced, max_attempts)

\* Holders of the semaphore of the root's loop, and of the loop of the
\* sub-recipe of iteration i (1368-1373).
RootHolders(n) == {i \in NestItems : n.iteration[i] = "running"}

LeafHolders(n, i) ==
    {l \in Leaves : l[1] = i /\ n.leaf[l].pc \in {"acquire", "lock", "sleep", "call", "retry"}}

SemaphoreOpen(n, holders) == n.parallel = 0 \/ Cardinality(holders) < n.parallel

\* asyncio.gather (1380) and the handlers above it: an exception of a leaf
\* ends its sub-recipe's loop and so the iteration of the root's loop that
\* runs it, and that ends the root's loop and the root (566-570); a loop
\* whose iterations have all returned returns.  An invocation that has
\* ended stays as it is.
Gathered(n) ==
    LET iteration == [i \in NestItems |->
                        IF n.iteration[i] # "running" THEN n.iteration[i]
                        ELSE IF \E l \in Leaves : l[1] = i /\ n.leaf[l].pc = "raised" THEN "raised"
                        ELSE IF \A l \in Leaves : l[1] = i => n.leaf[l].pc = "returned" THEN "returned"
                        ELSE "running"]
        pc == IF n.pc # "running" THEN n.pc
              ELSE IF \E i \in NestItems : iteration[i] = "raised" THEN "failed"
              ELSE IF \A i \in NestItems : iteration[i] = "returned" THEN "completed"
              ELSE "running"
    IN  [n EXCEPT !.iteration = iteration, !.pc = pc]

\* execute_recipe of the root reaches its step: the tasks of the loop are
\* created (1376-1380).
NestStart ==
    /\ comp.pc = "start"
    /\ comp' = [comp EXCEPT !.pc = "running",
                            !.iteration = [i \in NestItems |-> "waiting"]]
    /\ UNCHANGED Beside

\* An iteration of the root's loop gets the loop's semaphore and enters the
\* sub-recipe at depth 1 (1369-1373, 1450-1465), which creates the tasks of
\* its own loop.
IterationEnters(i) ==
    /\ comp.iteration[i] = "waiting"
    /\ SemaphoreOpen(comp, RootHolders(comp))
    /\ comp' = [comp EXCEPT !.iteration[i] = "running",
                            !.leaf = [l \in Leaves |-> IF l[1] = i THEN Leaf("waiting") ELSE @[l]]]
    /\ UNCHANGED Beside

\* An iteration of a sub-recipe's loop gets that loop's semaphore.  In the
\* cyclic tree it enters the root recipe at depth 2, where check_depth
\* raises (89-95, 353-355); in the nested tree it is an agent step and
\* goes to rate_limiter.acquire (906-908).
LeafEnters(l) ==
    /\ comp.leaf[l].pc = "waiting"
    /\ SemaphoreOpen(comp, LeafHolders(comp, l[1]))
    /\ comp' = IF comp.kind = "cyclic"
               THEN Gathered([comp EXCEPT !.leaf[l].pc = "raised"])
               ELSE [comp EXCEPT !.leaf[l].pc = "acquire"]
    /\ UNCHANGED Beside

\* _apply_pacing with the lock free (206-213): the acquirer sleeps under
\* the lock or finds the delay elapsed.
PacedLeaf(n, l) ==
    {[n EXCEPT !.leaf[l].pc = "call"]}
        \cup IF n.paced THEN {[n EXCEPT !.leaf[l].pc = "sleep", !.lock = l]} ELSE {}

\* RateLimiter.acquire (182-190): a slot, then the pacing step.
LeafAcquire(l) ==
    /\ comp.leaf[l].pc = "acquire"
    /\ CanAcquire(comp.rate_limiter)
    /\ LET taken == [comp EXCEPT !.rate_limiter = acquire(@)]
       IN  IF comp.paced /\ comp.lock # << >>
           THEN comp' = [taken EXCEPT !.leaf[l].pc = "lock"]
           ELSE comp' \in PacedLeaf(taken, l)
    /\ UNCHANGED Beside

\* The pacing lock is free for a waiting acquirer.
LeafLock(l) ==
    /\ comp.leaf[l].pc = "lock"
    /\ comp.lock = << >>
    /\ comp' \in PacedLeaf(comp, l)
    /\ UNCHANGED Beside

\* The sleep of the pacing step ends; the lock is released.
LeafWake(l) ==
    /\ comp.leaf[l].pc = "sleep"
    /\ comp' = [comp EXCEPT !.leaf[l].pc = "call",
                            !.lock = Unlock(@)]
    /\ UNCHANGED Beside

\* The agent call returns (912-920): the slot is released.
LeafReturns(l) ==
    /\ comp.leaf[l].pc = "call"
    /\ comp' = Gathered([comp EXCEPT !.leaf[l].pc = "returned",
                                     !.rate_limiter = release(@)])
    /\ UNCHANGED Beside

\* The agent call raises (917-942): the slot is released; on the last
\* attempt the exception goes up (on_error "fail"), on another one the
\* task sleeps before it retries.
LeafRaises(l) ==
    /\ comp.leaf[l].pc = "call"
    /\ LET released == [comp EXCEPT !.rate_limiter = release(@)]
       IN  comp' = IF LastAttempt(comp.leaf[l].attempt, comp.max_attempts)
                   THEN Gathered([released EXCEPT !.leaf[l].pc = "raised"])
                   ELSE [released EXCEPT !.leaf[l].pc = "retry"]
    /\ UNCHANGED Beside

\* The sleep before a retry ends (942, 901-908): the next attempt begins.
LeafRetry(l) ==
    /\ comp.leaf[l].pc = "retry"
    /\ comp' = [comp EXCEPT !.leaf[l].pc = "acquire", !.leaf[l].attempt = @ + 1]
    /\ UNCHANGED Beside

NextNest ==
    \/ NestStart
    \/ \E i \in NestItems : IterationEnters(i)
    \/ \E l \in Leaves : LeafEnters(l)
    \/ \E l \in Leaves : LeafAcquire(l)
    \/ \E l \in Leaves : LeafLock(l)
    \/ \E l \in Leaves : LeafWake(l)
    \/ \E l \in Leaves : LeafReturns(l)
    \/ \E l \in Leaves : LeafRaises(l)
    \/ \E l \in Leaves : LeafRetry(l)

SpecNest == InitNest /\ [][NextNest]_vars

\* Every spawn returns, every sleep elapses, and the event loop runs a
\* task that is ready.
SpecNestFair == SpecNest /\ WF_vars(NextNest)

\* C40 (termination and deadlock freedom): the root invocation of the
\* nested and of the cyclic tree, every loop parallel and every agent call
\* through the one limiter, eventually returns or raises; so no state in
\* which every task waits for a loop semaphore, a slot or the pacing lock
\* is ever reached before that.
NestTerminates == <>(comp.pc \in {"completed", "failed"})

\* The nested tree has completed under one slot, loops bounded by 1 and
\* pacing, one call having succeeded on its last attempt: every task had
\* to wait for the others.
NestTerminatesWitness ==
    /\ comp.kind = "nested"
    /\ comp.parallel = 1
    /\ comp.paced
    /\ comp.rate_limiter.max_concurrent = 1
    /\ comp.pc = "completed"
    /\ comp.max_attempts = MaxAttempts
    /\ \A l \in Leaves : comp.leaf[l].pc = "returned"
    /\ \E l \in Leaves : comp.leaf[l].attempt = MaxAttempts - 1
    /\ comp.rate_limiter.semaphore = 1
    /\ comp.lock = << >>
====
